---- MODULE Spec2Model ----
(***************************************************************************)
(* Model of the document structure extraction engine of src/agents:        *)
(*   document_ocr_agent.py   (DocumentOCRAgent)                            *)
(*   table_parser_agent.py   (TableParserAgent)                            *)
(*   document_processor.py   (DocumentProcessor)                           *)
(*                                                                         *)
(* Python dicts are functions with a finite domain of string keys, lists   *)
(* are sequences, floats are exact rationals [num, den] with den > 0.      *)
(***************************************************************************)
EXTENDS Integers, Sequences, FiniteSets, TLC

VARIABLES
    \* ---- DocumentOCRAgent ----
    ocrInstalled,   \* the OCR libraries that import: a subset of Backends
    ocrPreference,  \* the ocr_engine argument the agent was constructed with
    ocrEngine,      \* self.ocr_engine of the agent under test
    ocrWorld,       \* what the image file and the engine library answer
    ocrOptions,     \* the options dict of the pending / last call
    ocrOut,         \* [result, calls] of process_document, an empty dict before the call
    \* ---- TableParserAgent ----
    tblIn,          \* the argument of the pending / last table operation
    tblOp,          \* which operation of the parser is called
    tblOut,         \* what the operation returned
    tblDone,        \* whether the operation has returned
    \* ---- DocumentProcessor ----
    config,         \* self.config
    cache,          \* self.cache
    clock,          \* datetime.now(), advanced by every call
    used,           \* the cache keys of the calls made so far
    prev,           \* the process call before the last one
    last,           \* the last process call: its arguments, the value it
                    \* returned, the sub-calls it made and the errors they reported
    threads         \* the process calls running at once on the processor:
                    \* where each one is and what it holds in its locals

ocrVars  == <<ocrInstalled, ocrPreference, ocrEngine, ocrWorld, ocrOptions, ocrOut>>
tblVars  == <<tblIn, tblOp, tblOut, tblDone>>
procVars == <<config, cache, clock, used, prev, last, threads>>
vars     == <<ocrInstalled, ocrPreference, ocrEngine, ocrWorld, ocrOptions, ocrOut, tblIn, tblOp, tblOut, tblDone,
              config, cache, clock, used, prev, last, threads>>

(***************************************************************************)
(* Python dict and list helpers                                            *)
(***************************************************************************)
EmptyDict == <<>>

\* d.get(k, default)
Get(d, k, default) == IF k \in DOMAIN d THEN d[k] ELSE default

\* d[k] = v
Put(d, k, v) == [x \in (DOMAIN d) \cup {k} |-> IF x = k THEN v ELSE d[x]]

\* the elements of a list
Range(s) == {s[i] : i \in 1..Len(s)}

RECURSIVE SeqsUpTo(_, _)
\* all lists over S of length at most n
SeqsUpTo(S, n) ==
    IF n = 0 THEN {<<>>}
    ELSE LET shorter == SeqsUpTo(S, n - 1)
         IN shorter \cup {Append(s, x) : s \in {t \in shorter : Len(t) = n - 1}, x \in S}

(***************************************************************************)
(* Exact arithmetic for the float confidences                              *)
(***************************************************************************)
Rat(n, d)    == [num |-> n, den |-> d]
RatEq(a, b)  == a.num * b.den = b.num * a.den
RatGe(a, b)  == a.num * b.den >= b.num * a.den
RatGt(a, b)  == a.num * b.den > b.num * a.den

RECURSIVE Gcd(_, _)
Gcd(m, n) == IF n = 0 THEN m ELSE Gcd(n, m % n)

\* the same number in lowest terms
Lowest(n, d) ==
    LET g == Gcd(IF n < 0 THEN -n ELSE n, d) IN Rat(n \div g, d \div g)

RatAdd(a, b)   == Lowest(a.num * b.den + b.num * a.den, a.den * b.den)
RatTimes(a, k) == Lowest(a.num * k, a.den)
RatOver(a, k)  == Lowest(a.num, a.den * k)

RECURSIVE RatSum(_)
RatSum(s) == IF s = <<>> THEN Rat(0, 1) ELSE RatAdd(s[1], RatSum(Tail(s)))

\* np.mean(xs) if xs else 0
MeanOrZero(xs) == IF xs = <<>> THEN Rat(0, 1) ELSE RatOver(RatSum(xs), Len(xs))

(***************************************************************************)
(* Python strings are lists of one-character strings                       *)
(***************************************************************************)
Whitespace == {" ", "\t", "\n"}

RECURSIVE LStrip(_)
LStrip(s) == IF s # <<>> /\ s[1] \in Whitespace THEN LStrip(Tail(s)) ELSE s

RECURSIVE RStrip(_)
RStrip(s) ==
    IF s # <<>> /\ s[Len(s)] \in Whitespace THEN RStrip(SubSeq(s, 1, Len(s) - 1)) ELSE s

\* str.strip()
Strip(s) == LStrip(RStrip(s))

RECURSIVE Join(_, _)
\* sep.join(parts)
Join(sep, parts) ==
    IF parts = <<>> THEN <<>>
    ELSE IF Len(parts) = 1 THEN parts[1]
    ELSE parts[1] \o sep \o Join(sep, Tail(parts))

(***************************************************************************)
(* DocumentOCRAgent                                                        *)
(*                                                                         *)
(* ocrWorld is what lies outside the agent: whether the image file loads,  *)
(* what the engine library recognises in it (or that it raises), and the  *)
(* image _detect_layout looks at.  A tesseract span carries an integer     *)
(* confidence in -1..100, an easyocr span a fraction in [0,1] and a        *)
(* quadrilateral.                                                          *)
(***************************************************************************)
NoEngine == "None"

\* the engines an agent can drive, named as _select_engine names them
Backends == {"tesseract", "easyocr"}

\* _select_engine(preference), installed being the libraries that imported
_select_engine(preference, installed) ==
    IF preference = "tesseract" /\ "tesseract" \in installed THEN "tesseract"
    ELSE IF preference = "easyocr" /\ "easyocr" \in installed THEN "easyocr"
    ELSE IF preference = "auto"
    THEN IF "easyocr" \in installed THEN "easyocr"
         ELSE IF "tesseract" \in installed THEN "tesseract"
         ELSE NoEngine
    ELSE NoEngine

\* the result dict process_document and both backends start from
BlankOcrResult ==
    [text |-> <<>>, blocks |-> <<>>, confidence |-> Rat(0, 1), errors |-> <<>>]

\* int(data['conf'][i]) > 0, non-blank text, and the threshold test of
\* _ocr_with_tesseract; the default threshold is 30
TesseractKeeps(span, options) ==
    /\ span.conf > 0
    /\ Strip(span.text) # <<>>
    /\ RatGe(Rat(span.conf, 1), Get(options, "confidence_threshold", Rat(30, 1)))

TesseractBlock(span) ==
    [text       |-> Strip(span.text),
     confidence |-> Rat(span.conf, 1),
     bbox       |-> [x |-> span.left, y |-> span.top,
                     width |-> span.width, height |-> span.height],
     level      |-> span.level]

RECURSIVE TesseractBlocks(_, _)
TesseractBlocks(spans, options) ==
    IF spans = <<>> THEN <<>>
    ELSE (IF TesseractKeeps(spans[1], options)
          THEN <<TesseractBlock(spans[1])>> ELSE <<>>)
         \o TesseractBlocks(Tail(spans), options)

\* a `confidences` list appended to before the threshold test
UnfilteredConfidences(spans, options) ==
    [i \in 1..Len(spans) |-> Rat(spans[i].conf, 1)]

RECURSIVE TesseractConfidences(_, _)
\* the list `confidences`: appended to together with `blocks`
TesseractConfidences(spans, options) ==
    IF spans = <<>> THEN <<>>
    ELSE (IF TesseractKeeps(spans[1], options)
          THEN <<Rat(spans[1].conf, 1)>> ELSE <<>>)
         \o TesseractConfidences(Tail(spans), options)

_ocr_with_tesseract(world, options) ==
    IF world.raises = "image_to_string"
    THEN [BlankOcrResult EXCEPT !.errors = <<"Tesseract error">>]
    ELSE IF world.raises = "image_to_data"
    THEN [BlankOcrResult EXCEPT !.text = world.pageText,
                                !.errors = <<"Tesseract error">>]
    ELSE [BlankOcrResult EXCEPT
            !.text = world.pageText,
            !.blocks = TesseractBlocks(world.spans, options),
            !.confidence = MeanOrZero(TesseractConfidences(world.spans, options))]

SetMin(S) == CHOOSE m \in S : \A x \in S : m <= x
SetMax(S) == CHOOSE m \in S : \A x \in S : m >= x

\* confidence >= threshold of _ocr_with_easyocr; the default threshold is 0.3
EasyocrKeeps(span, options) ==
    RatGe(span.conf, Get(options, "confidence_threshold", Rat(3, 10)))

\* a block confidence left on the native scale
NativeConfidence(conf) == conf

\* float(confidence) * 100
EasyocrBlockConfidence(conf) == RatTimes(conf, 100)

EasyocrBlock(span) ==
    LET xs == {span.quad[i][1] : i \in 1..Len(span.quad)}
        ys == {span.quad[i][2] : i \in 1..Len(span.quad)}
    IN [text       |-> span.text,
        confidence |-> EasyocrBlockConfidence(span.conf),
        bbox       |-> [x |-> SetMin(xs), y |-> SetMin(ys),
                        width  |-> SetMax(xs) - SetMin(xs),
                        height |-> SetMax(ys) - SetMin(ys)]]

RECURSIVE EasyocrKept(_, _)
\* the spans that pass the threshold, in order
EasyocrKept(spans, options) ==
    IF spans = <<>> THEN <<>>
    ELSE (IF EasyocrKeeps(spans[1], options) THEN <<spans[1]>> ELSE <<>>)
         \o EasyocrKept(Tail(spans), options)

\* np.mean(confidences) * 100 if confidences else 0, over the native
\* confidences of the spans kept
EasyocrConfidence(kept) ==
    IF kept = <<>> THEN Rat(0, 1)
    ELSE RatTimes(MeanOrZero([i \in 1..Len(kept) |-> kept[i].conf]), 100)

_ocr_with_easyocr(world, options) ==
    IF world.raises = "readtext"
    THEN [BlankOcrResult EXCEPT !.errors = <<"EasyOCR error">>]
    ELSE LET kept == EasyocrKept(world.spans, options)
         IN [BlankOcrResult EXCEPT
                !.text = Join(<<" ">>, [i \in 1..Len(kept) |-> kept[i].text]),
                !.blocks = [i \in 1..Len(kept) |-> EasyocrBlock(kept[i])],
                !.confidence = EasyocrConfidence(kept)]

(***************************************************************************)
(* DocumentOCRAgent._detect_layout                                         *)
(*                                                                         *)
(* An image is [cv2, raises, height, runs, contours]: whether OpenCV is    *)
(* installed, which OpenCV call raises ("no": none), the pixel height, the *)
(* vertical projection of the binarised image as runs [val, len] of equal  *)
(* column sums from left to right, and the bounding rectangles [x, y, w,   *)
(* h] of the contours findContours returns.                                *)
(***************************************************************************)
\* the layout dict _detect_layout starts from
DefaultLayout == [regions |-> <<>>, columns |-> 0, orientation |-> "portrait"]

RECURSIVE RunsWidth(_)
\* the number of pixel columns: len(vertical_proj)
RunsWidth(runs) == IF runs = <<>> THEN 0 ELSE runs[1].len + RunsWidth(Tail(runs))

RECURSIVE RunsSum(_)
\* np.sum(vertical_proj)
RunsSum(runs) ==
    IF runs = <<>> THEN 0 ELSE runs[1].val * runs[1].len + RunsSum(Tail(runs))

\* val < threshold, the threshold being np.mean(vertical_proj) * 0.5
BelowGapThreshold(val, runs) == 2 * val * RunsWidth(runs) < RunsSum(runs)

RECURSIVE GapLoop(_, _, _, _, _, _)
\* the loop over vertical_proj, a run at a time: pos is the index i of the
\* first column of runs[k], gaps the list built so far
GapLoop(runs, k, pos, in_gap, gap_start, gaps) ==
    IF k > Len(runs) THEN gaps
    ELSE IF BelowGapThreshold(runs[k].val, runs) /\ ~in_gap
    THEN GapLoop(runs, k + 1, pos + runs[k].len, TRUE, pos, gaps)
    ELSE IF ~BelowGapThreshold(runs[k].val, runs) /\ in_gap
    THEN GapLoop(runs, k + 1, pos + runs[k].len, FALSE, gap_start,
                 IF 20 * (pos - gap_start) > RunsWidth(runs)
                 THEN Append(gaps, <<gap_start, pos>>) ELSE gaps)
    ELSE GapLoop(runs, k + 1, pos + runs[k].len, in_gap, gap_start, gaps)

\* layout['columns'] = len(gaps) + 1 if gaps else 1
LayoutColumns(runs) == Len(GapLoop(runs, 1, 0, FALSE, 0, <<>>)) + 1

\* the regions appended for the contours whose bounding box has area > 1000
LayoutRegions(contours) ==
    LET big == SelectSeq(contours, LAMBDA c : c.w * c.h > 1000)
    IN [i \in 1..Len(big) |->
          [type |-> "text",
           bbox |-> [x |-> big[i].x, y |-> big[i].y,
                     width |-> big[i].w, height |-> big[i].h],
           area |-> big[i].w * big[i].h]]

\* _detect_layout(image)
_detect_layout(image) ==
    IF ~image.cv2 \/ image.raises = "cvtColor" THEN DefaultLayout
    ELSE LET oriented ==
                 [DefaultLayout EXCEPT
                    !.orientation = IF RunsWidth(image.runs) > image.height
                                    THEN "landscape" ELSE "portrait"]
         IN IF image.raises = "threshold" THEN oriented
            ELSE IF image.raises = "findContours"
            THEN [oriented EXCEPT !.columns = LayoutColumns(image.runs)]
            ELSE [oriented EXCEPT !.columns = LayoutColumns(image.runs),
                                  !.regions = LayoutRegions(image.contours)]

\* image.shape[:2] of an array, image.size of a PIL image
ImageSize(image) ==
    IF image.cv2 THEN <<image.height, RunsWidth(image.runs)>>
    ELSE <<RunsWidth(image.runs), image.height>>

\* the OpenCV steps _preprocess_image takes on the RGB array _load_image
\* returned, in order
PreprocessSteps(options) ==
    <<"cvtColor">>
    \o (IF Get(options, "denoise", TRUE) THEN <<"medianBlur">> ELSE <<>>)
    \o (IF Get(options, "enhance_contrast", TRUE) THEN <<"adaptiveThreshold">> ELSE <<>>)
    \o (IF Get(options, "deskew", FALSE) THEN <<"_deskew_image">> ELSE <<>>)

\* _deskew_image: the rotation, or nothing when cv2.minAreaRect raises
_deskew_image(world) ==
    IF world.raises = "minAreaRect" THEN <<>> ELSE <<"_deskew_image">>

\* _preprocess_image(image, options): the steps it calls, the ones whose
\* output the returned image carries, and whether it raises; only
\* _deskew_image has a try of its own
_preprocess_image(world, options) ==
    LET steps  == PreprocessSteps(options)
        fails  == {i \in 1..Len(steps) :
                     steps[i] = world.raises /\ steps[i] # "_deskew_image"}
        upto   == IF fails = {} THEN Len(steps) ELSE CHOOSE i \in fails : TRUE
        done   == SubSeq(steps, 1, IF fails = {} THEN upto ELSE upto - 1)
    IN IF ~world.image.cv2
       THEN [calls |-> <<>>, applied |-> <<>>, raised |-> FALSE]
       ELSE [calls   |-> SubSeq(steps, 1, upto),
             applied |-> IF done # <<>> /\ done[Len(done)] = "_deskew_image"
                         THEN SubSeq(done, 1, Len(done) - 1) \o _deskew_image(world)
                         ELSE done,
             raised  |-> fails # {}]

\* a process_document that returns at once without an engine and says nothing
NoEngineResultSilent == Put(BlankOcrResult, "metadata", EmptyDict)

\* the `if not self.ocr_engine:` lines of process_document
NoEngineResult ==
    Put([BlankOcrResult EXCEPT
           !.errors = <<"No OCR engine available. Install pytesseract or easyocr.">>],
        "metadata", EmptyDict)

\* process_document: the dict it returns and, in order, the calls it makes
process_document(engine, world, options) ==
    IF engine = NoEngine
    THEN [result |-> NoEngineResult, calls |-> <<>>, applied |-> <<>>]
    ELSE IF world.raises = "_load_image"
    THEN [result |-> Put([BlankOcrResult EXCEPT !.errors = <<"OCR processing error">>],
                         "metadata", EmptyDict),
          calls  |-> <<"_load_image">>, applied |-> <<>>]
    ELSE IF Get(options, "preprocess", TRUE) /\ _preprocess_image(world, options).raised
    THEN [result  |-> Put([BlankOcrResult EXCEPT !.errors = <<"OCR processing error">>],
                          "metadata", EmptyDict),
          calls   |-> <<"_load_image", "_preprocess_image">>
                         \o _preprocess_image(world, options).calls,
          applied |-> <<>>]
    ELSE LET pre     == Get(options, "preprocess", TRUE)
             backend == IF engine = "tesseract"
                        THEN _ocr_with_tesseract(world, options)
                        ELSE _ocr_with_easyocr(world, options)
             withLay == IF Get(options, "detect_layout", FALSE)
                        THEN Put(backend, "layout", _detect_layout(world.image))
                        ELSE backend
         IN [result |-> Put(withLay, "metadata",
                            [engine |-> engine, image_size |-> ImageSize(world.image),
                             preprocessing |-> pre]),
             calls  |-> <<"_load_image">>
                        \o (IF pre THEN <<"_preprocess_image">>
                                        \o _preprocess_image(world, options).calls
                            ELSE <<>>)
                        \o <<engine>>
                        \o (IF Get(options, "detect_layout", FALSE)
                            THEN <<"_detect_layout">> ELSE <<>>),
             applied |-> IF pre THEN _preprocess_image(world, options).applied
                         ELSE <<>>]

(***************************************************************************)
(* More of Python's str and re, on lists of characters                     *)
(***************************************************************************)
\* s.split(ch) for a one-character separator: the pieces between the
\* occurrences of ch, empty pieces included
Split(s, ch) ==
    LET at     == {i \in 1..Len(s) : s[i] = ch}
        nth(j) == CHOOSE p \in at : Cardinality({q \in at : q < p}) = j - 1
        n      == Cardinality(at) + 1
    IN [j \in 1..n |->
            SubSeq(s, IF j = 1 THEN 1 ELSE nth(j - 1) + 1,
                      IF j = n THEN Len(s) ELSE nth(j) - 1)]

\* s.count(ch)
Count(s, ch) == Len(Split(s, ch)) - 1

RECURSIVE DropSpaces(_)
DropSpaces(s) == IF s # <<>> /\ s[1] = " " THEN DropSpaces(Tail(s)) ELSE s

RECURSIVE SplitSpaces(_)
\* re.split(r'  +', s): the separators are the maximal runs of two or more spaces
SplitSpaces(s) ==
    IF s = <<>> THEN << <<>> >>
    ELSE IF Len(s) >= 2 /\ s[1] = " " /\ s[2] = " "
    THEN << <<>> >> \o SplitSpaces(DropSpaces(s))
    ELSE LET rest == SplitSpaces(Tail(s))
         IN << <<s[1]>> \o rest[1] >> \o Tail(rest)

\* len(re.findall(r'  +', s))
CountSpaceRuns(s) == Len(SplitSpaces(s)) - 1

RECURSIVE IntStr(_)
\* str(n) for n >= 0
IntStr(n) ==
    IF n < 10 THEN <<ToString(n)>> ELSE IntStr(n \div 10) \o <<ToString(n % 10)>>

\* [strip(c) for c in parts]
StripAll(parts) == [i \in 1..Len(parts) |-> Strip(parts[i])]

\* [c for c in parts if c]
NonEmpty(parts) == SelectSeq(parts, LAMBDA c : c # <<>>)

(***************************************************************************)
(* TableParserAgent: tables in plain text                                  *)
(***************************************************************************)
\* Python's None; every dict the parsers return in its place is non-empty
None == EmptyDict

\* f'Column_{j+1}', for the 1-based position n
ColumnName(n) == <<"C", "o", "l", "u", "m", "n", "_">> \o IntStr(n)

\* _detect_delimiter
_detect_delimiter(line) ==
    IF Count(line, "|") > 0 THEN "|"
    ELSE IF Count(line, "\t") > 0 THEN "\t"
    ELSE IF CountSpaceRuns(line) > 0 THEN "  "
    ELSE ","

\* re.match(r'^[\|\-\+\s]+$', line)
IsSeparatorLine(line) ==
    /\ line # <<>>
    /\ \A i \in 1..Len(line) : line[i] \in {"|", "-", "+"} \cup Whitespace

\* the cells of one line of _parse_text_table
LineCells(line, delimiter) ==
    IF delimiter = "|" THEN NonEmpty(StripAll(Split(line, "|")))
    ELSE IF delimiter = "\t" THEN StripAll(Split(line, "\t"))
    ELSE StripAll(SplitSpaces(line))

RECURSIVE RowDictZip(_, _, _, _)
\* a fill that stops at the last header: dict(zip(headers, cells))
RowDictZip(headers, cells, j, row) ==
    IF j > Len(cells) \/ j > Len(headers) THEN row
    ELSE RowDictZip(headers, cells, j + 1, Put(row, headers[j], cells[j]))

RECURSIVE RowDict(_, _, _, _)
\* the loop that fills `row`: cells[j..] stored under headers[j] or Column_j
RowDict(headers, cells, j, row) ==
    IF j > Len(cells) THEN row
    ELSE RowDict(headers, cells, j + 1,
                 Put(row, IF j <= Len(headers) THEN headers[j] ELSE ColumnName(j),
                     cells[j]))

RECURSIVE ParseLines(_, _, _, _)
\* the loop of _parse_text_table over the lines: [headers, data]
ParseLines(lines, delimiter, headers, data) ==
    IF lines = <<>> THEN [headers |-> headers, data |-> data]
    ELSE IF IsSeparatorLine(lines[1])
    THEN ParseLines(Tail(lines), delimiter, headers, data)
    ELSE LET cells == LineCells(lines[1], delimiter)
         IN IF headers = <<>>
            THEN ParseLines(Tail(lines), delimiter, cells, data)
            ELSE ParseLines(Tail(lines), delimiter, headers,
                            Append(data, RowDict(headers, cells, 1, EmptyDict)))

\* a parser without the `if not data: return None` lines
ParseTextTableKeepEmpty(table_text) ==
    LET lines  == Split(Strip(table_text), "\n")
        delim  == _detect_delimiter(lines[1])
        parsed == ParseLines(lines, delim, <<>>, <<>>)
    IN [data      |-> parsed.data,
        headers   |-> parsed.headers,
        rows      |-> Len(parsed.data),
        columns   |-> Len(parsed.headers),
        delimiter |-> delim]

_parse_text_table(table_text) ==
    LET lines  == Split(Strip(table_text), "\n")
        delim  == _detect_delimiter(lines[1])
        parsed == ParseLines(lines, delim, <<>>, <<>>)
    IN IF parsed.data = <<>> THEN None
       ELSE [data      |-> parsed.data,
             headers   |-> parsed.headers,
             rows      |-> Len(parsed.data),
             columns   |-> Len(parsed.headers),
             delimiter |-> delim]

\* the test of _detect_text_tables on one line
IsTabularLine(line) ==
    \/ Count(line, "|") > 1
    \/ Count(line, "\t") > 1
    \/ CountSpaceRuns(line) > 2

RECURSIVE DetectBlocksOpenEnd(_, _, _)
\* a loop with no "Add last table if exists" after it
DetectBlocksOpenEnd(lines, current_table, tables) ==
    IF lines = <<>> THEN tables
    ELSE IF IsTabularLine(lines[1])
    THEN DetectBlocksOpenEnd(Tail(lines), Append(current_table, lines[1]), tables)
    ELSE IF current_table # <<>>
    THEN DetectBlocksOpenEnd(Tail(lines), <<>>,
                      IF Len(current_table) > 1
                      THEN Append(tables, Join(<<"\n">>, current_table)) ELSE tables)
    ELSE DetectBlocksOpenEnd(Tail(lines), current_table, tables)

RECURSIVE DetectBlocks(_, _, _)
\* the loop of _detect_text_tables: `tables` after the remaining lines
DetectBlocks(lines, current_table, tables) ==
    IF lines = <<>>
    THEN IF Len(current_table) > 1
         THEN Append(tables, Join(<<"\n">>, current_table)) ELSE tables
    ELSE IF IsTabularLine(lines[1])
    THEN DetectBlocks(Tail(lines), Append(current_table, lines[1]), tables)
    ELSE IF current_table # <<>>
    THEN DetectBlocks(Tail(lines), <<>>,
                      IF Len(current_table) > 1
                      THEN Append(tables, Join(<<"\n">>, current_table)) ELSE tables)
    ELSE DetectBlocks(Tail(lines), current_table, tables)

_detect_text_tables(text) == DetectBlocks(Split(text, "\n"), <<>>, <<>>)

RECURSIVE CollectTables(_, _, _)
\* the loop of _parse_text_tables: blocks[i..] parsed, named table_i, None dropped
CollectTables(blocks, i, tables) ==
    IF i > Len(blocks) THEN tables
    ELSE LET table_data == _parse_text_table(blocks[i])
         IN CollectTables(blocks, i + 1,
                IF table_data # None
                THEN Append(tables, Put(table_data, "id",
                                        <<"t", "a", "b", "l", "e", "_">> \o IntStr(i)))
                ELSE tables)

\* _parse_text_tables(text): probe says what the file system answers when the
\* text is taken for a path: "absent", "raises" (exists, cannot be read) or the
\* text of the file
_parse_text_tables(text, probe) ==
    IF Len(text) < 500 /\ probe = <<"raises">>
    THEN [tables |-> <<>>, metadata |-> [source |-> "text"],
          errors |-> <<"Text parsing error">>]
    ELSE LET body == IF Len(text) < 500 /\ probe # <<"absent">> THEN probe[2] ELSE text
         IN [tables   |-> CollectTables(_detect_text_tables(body), 1, <<>>),
             metadata |-> [source |-> "text"],
             errors   |-> <<>>]

(***************************************************************************)
(* TableParserAgent: a table element of an HTML document                   *)
(*                                                                         *)
(* The element is [hasThead, theadRows, hasTbody, bodyRows]; a row is the   *)
(* list of its cells [tag, text] with tag "th" or "td" and text as          *)
(* get_text(strip=True) gives it.  The thead rows come first in the         *)
(* document; without a tbody element the body rows are children of the     *)
(* table element itself.                                                   *)
(***************************************************************************)
\* [c.get_text(strip=True) for c in tr.find_all(['td', 'th'])]
CellTexts(tr) == [i \in 1..Len(tr) |-> tr[i].text]

\* tr.find('th') is not None
HasTh(tr) == \E i \in 1..Len(tr) : tr[i].tag = "th"

\* the "Extract headers" step of _parse_html_table_element
HtmlHeaders(table) ==
    IF table.hasThead
    THEN IF table.theadRows # <<>> THEN CellTexts(table.theadRows[1]) ELSE <<>>
    ELSE LET trs == table.bodyRows
         IN IF trs # <<>> /\ HasTh(trs[1])
            THEN CellTexts(SelectSeq(trs[1], LAMBDA c : c.tag = "th"))
            ELSE <<>>

\* (table.find('tbody') or table).find_all('tr')
HtmlBodyTrs(table) ==
    IF table.hasTbody THEN table.bodyRows
    ELSE (IF table.hasThead THEN table.theadRows ELSE <<>>) \o table.bodyRows

RECURSIVE HtmlRows(_, _)
\* the "Extract data rows" loop: rows with a th are skipped once there are
\* headers, empty rows always
HtmlRows(trs, headers) ==
    IF trs = <<>> THEN <<>>
    ELSE (IF (HasTh(trs[1]) /\ headers # <<>>) \/ trs[1] = <<>>
          THEN <<>> ELSE <<CellTexts(trs[1])>>)
         \o HtmlRows(Tail(trs), headers)

\* one row of the "Convert to structured format" loop; dict(zip(headers, row))
\* when the lengths agree is the same fill
HtmlRowDict(headers, row) == RowDict(headers, row, 1, EmptyDict)

_parse_html_table_element(table, index) ==
    LET found   == HtmlHeaders(table)
        rows    == HtmlRows(HtmlBodyTrs(table), found)
        headers == IF found = <<>> /\ rows # <<>>
                   THEN [i \in 1..Len(rows[1]) |-> ColumnName(i)]
                   ELSE found
        data    == [k \in 1..Len(rows) |-> HtmlRowDict(headers, rows[k])]
    IN [id      |-> <<"t", "a", "b", "l", "e", "_">> \o IntStr(index + 1),
        data    |-> data,
        headers |-> headers,
        rows    |-> Len(data),
        columns |-> Len(headers),
        attributes |-> EmptyDict]

(***************************************************************************)
(* TableParserAgent: CSV text and Excel workbooks                          *)
(*                                                                         *)
(* CSV content is text without quotes or carriage returns.  A workbook is  *)
(* the list of its sheets as pandas.read_excel returns them with header=0: *)
(* [name, columns, rows], every row as long as columns, a cell a string or *)
(* NaN.                                                                    *)
(***************************************************************************)
\* Python's None where a string is expected; no list of characters
PyNone == <<"None">>

\* csv.reader over StringIO(content): one list of fields per line, the empty
\* list for a blank line
CsvReader(content) ==
    LET parts == Split(content, "\n")
        lines == IF parts[Len(parts)] = <<>> THEN SubSeq(parts, 1, Len(parts) - 1)
                 ELSE parts
    IN [k \in 1..Len(lines) |->
            IF lines[k] = <<>> THEN <<>> ELSE Split(lines[k], ",")]

\* the dict csv.DictReader makes of a row: dict(zip(fieldnames, row)), the
\* fields beyond the fieldnames under restkey None, the fieldnames beyond
\* the row with restval None
CsvRecord(fieldnames, row) ==
    LET lf == Len(fieldnames)
        lr == Len(row)
        zipped == [key \in {fieldnames[i] : i \in 1..(IF lf < lr THEN lf ELSE lr)} |->
                      row[CHOOSE i \in 1..lr :
                             /\ i <= lf /\ fieldnames[i] = key
                             /\ \A j \in (i + 1)..lr : j <= lf => fieldnames[j] # key]]
    IN IF lf < lr THEN Put(zipped, PyNone, SubSeq(row, lf + 1, lr))
       ELSE [key \in Range(fieldnames) |->
                IF key \in DOMAIN zipped THEN zipped[key] ELSE PyNone]

\* list(csv.DictReader(...)): the first line gives the fieldnames, blank
\* lines after it are skipped
CsvDictReader(content) ==
    LET read == CsvReader(content)
        body == SelectSeq(Tail(read), LAMBDA r : r # <<>>)
    IN IF read = <<>> THEN [fieldnames |-> PyNone, data |-> <<>>]
       ELSE [fieldnames |-> read[1],
             data |-> [k \in 1..Len(body) |-> CsvRecord(read[1], body[k])]]

\* _parse_csv_table(source, options), the source naming no file
_parse_csv_table(source) ==
    LET reader == CsvDictReader(source)
    IN [tables   |-> IF reader.data # <<>>
                     THEN <<[id      |-> <<"t", "a", "b", "l", "e", "_", "1">>,
                             data    |-> reader.data,
                             headers |-> reader.fieldnames,
                             rows    |-> Len(reader.data),
                             columns |-> Len(reader.fieldnames)]>>
                     ELSE <<>>,
        metadata |-> [source |-> "csv"],
        errors   |-> <<>>]

\* what pandas puts for an empty cell
NaN == <<"nan">>

\* df.dropna(how='all'): the rows that are not all NaN
DropNa(rows) == SelectSeq(rows, LAMBDA r : \E i \in 1..Len(r) : r[i] # NaN)

\* df.to_dict('records') for one row: the last of equal column names wins
SheetRecord(columns, row) ==
    [c \in Range(columns) |->
        row[CHOOSE i \in 1..Len(columns) :
               columns[i] = c /\ \A j \in (i + 1)..Len(columns) : columns[j] # c]]

\* a table whose row count is taken before the empty rows are removed
SheetTableRaw(sheet) ==
    LET columns == [i \in 1..Len(sheet.columns) |-> Strip(sheet.columns[i])]
        df      == DropNa(sheet.rows)
    IN [id         |-> <<"s", "h", "e", "e", "t", "_">> \o sheet.name,
        sheet_name |-> sheet.name,
        data       |-> [k \in 1..Len(df) |-> SheetRecord(columns, df[k])],
        headers    |-> columns,
        rows       |-> Len(sheet.rows),
        columns    |-> Len(columns)]

\* the table_data of one sheet
SheetTable(sheet) ==
    LET columns == [i \in 1..Len(sheet.columns) |-> Strip(sheet.columns[i])]
        df      == DropNa(sheet.rows)
    IN [id         |-> <<"s", "h", "e", "e", "t", "_">> \o sheet.name,
        sheet_name |-> sheet.name,
        data       |-> [k \in 1..Len(df) |-> SheetRecord(columns, df[k])],
        headers    |-> columns,
        rows       |-> Len(df),
        columns    |-> Len(columns)]

\* _parse_excel_tables(file_path, options); book is [pd, raises, sheets]:
\* whether pandas is installed, whether pd.ExcelFile raises on the file, and
\* the sheets of the workbook
_parse_excel_tables(book) ==
    IF ~book.pd
    THEN [tables |-> <<>>, metadata |-> [source |-> "excel"],
          errors |-> <<"pandas not installed">>]
    ELSE IF book.raises
    THEN [tables |-> <<>>, metadata |-> [source |-> "excel"],
          errors |-> <<"Excel parsing error">>]
    ELSE [tables   |-> [k \in 1..Len(book.sheets) |-> SheetTable(book.sheets[k])],
          metadata |-> [source |-> "excel", sheet_count |-> Len(book.sheets)],
          errors   |-> <<>>]

(***************************************************************************)
(* TableParserAgent.validate_table_structure                               *)
(***************************************************************************)
\* the number of earlier occurrences of headers[i], i.e. `seen[h]` before
\* the i-th header is handled (0: not seen)
SeenBefore(headers, i) == Cardinality({j \in 1..(i - 1) : headers[j] = headers[i]})

\* the "Ensure unique headers" loop
UniqueHeaders(headers) ==
    [i \in 1..Len(headers) |->
        IF SeenBefore(headers, i) > 0
        THEN headers[i] \o <<"_">> \o IntStr(SeenBefore(headers, i) + 1)
        ELSE headers[i]]

\* the issues appended after the no-data test, in order
StructureIssues(table) ==
    LET headers     == Get(table, "headers", <<>>)
        row_lengths == {Cardinality(DOMAIN table.data[k]) : k \in 1..Len(table.data)}
    IN (IF Cardinality(row_lengths) > 1
        THEN <<"Inconsistent column count across rows">> ELSE <<>>)
       \o (IF headers = <<>> \/ \E i \in 1..Len(headers) : headers[i] = <<>>
           THEN <<"Missing or empty headers">> ELSE <<>>)
       \o (IF Len(headers) # Cardinality(Range(headers))
           THEN <<"Duplicate headers found">> ELSE <<>>)

validate_table_structure(table) ==
    IF Get(table, "data", <<>>) = <<>>
    THEN [is_valid |-> FALSE, issues |-> <<"No data found">>, cleaned_table |-> None]
    ELSE LET headers == Get(table, "headers", <<>>)
         IN [is_valid |-> TRUE,
             issues   |-> StructureIssues(table),
             cleaned_table |->
                IF headers # <<>>
                THEN Put(table, "headers", UniqueHeaders(headers))
                ELSE table]

(***************************************************************************)
(* TableParserAgent._detect_data_type                                      *)
(***************************************************************************)
Digits == {"0", "1", "2", "3", "4", "5", "6", "7", "8", "9"}

\* the length of the longest prefix of s made of characters of S
RECURSIVE PrefixLen(_, _)
PrefixLen(s, S) == IF s # <<>> /\ s[1] \in S THEN 1 + PrefixLen(Tail(s), S) ELSE 0

\* s without its first n characters
Drop(s, n) == SubSeq(s, n + 1, Len(s))

\* s.lower(), on the letters the model uses
LowerChar(c) ==
    CASE c = "A" -> "a" [] c = "E" -> "e" [] c = "F" -> "f" [] c = "I" -> "i"
      [] c = "L" -> "l" [] c = "N" -> "n" [] c = "O" -> "o" [] c = "R" -> "r"
      [] c = "S" -> "s" [] c = "T" -> "t" [] c = "U" -> "u" [] c = "Y" -> "y"
      [] OTHER -> c
Lower(s) == [i \in 1..Len(s) |-> LowerChar(s[i])]

\* value.replace(',', '')
WithoutCommas(s) == SelectSeq(s, LAMBDA c : c # ",")

\* an optional sign
Unsigned(s) == IF s # <<>> /\ s[1] \in {"+", "-"} THEN Tail(s) ELSE s

RECURSIVE DigitPartLen(_)
\* the length of the longest prefix of s that is a digitpart: digits, with
\* single underscores allowed between two digits
DigitPartLen(s) ==
    IF s = <<>> \/ s[1] \notin Digits THEN 0
    ELSE IF Len(s) >= 3 /\ s[2] = "_" /\ s[3] \in Digits
    THEN 2 + DigitPartLen(Drop(s, 2))
    ELSE 1 + DigitPartLen(Tail(s))

\* digits, a possible point and digits with a digit on one side at least, and
\* a possible exponent: Python's floatnumber
IsFloatNumber(s) ==
    LET ip   == DigitPartLen(s)
        r1   == Drop(s, ip)
        dot  == r1 # <<>> /\ r1[1] = "."
        r2   == IF dot THEN Tail(r1) ELSE r1
        fp   == IF dot THEN DigitPartLen(r2) ELSE 0
        r3   == Drop(r2, fp)
        expo == Unsigned(Tail(r3))
    IN /\ ip + fp > 0
       /\ \/ r3 = <<>>
          \/ /\ r3[1] \in {"e", "E"}
             /\ expo # <<>>
             /\ DigitPartLen(expo) = Len(expo)

\* float(text) does not raise: surrounding whitespace and a sign are allowed,
\* then a number, or inf, infinity or nan in any letter case
FloatParses(text) ==
    LET body == Unsigned(Strip(text))
    IN \/ IsFloatNumber(body)
       \/ Lower(body) \in {<<"i", "n", "f">>, <<"n", "a", "n">>,
                            <<"i", "n", "f", "i", "n", "i", "t", "y">>}

\* re.match of a pattern of single characters, "d" standing for \d: a prefix
\* of s has the shape
MatchesShape(s, shape) ==
    /\ Len(s) >= Len(shape)
    /\ \A i \in 1..Len(shape) :
          IF shape[i] = "d" THEN s[i] \in Digits ELSE s[i] = shape[i]

\* the three date_patterns
MatchesDate(s) ==
    \/ MatchesShape(s, <<"d", "d", "d", "d", "-", "d", "d", "-", "d", "d">>)
    \/ MatchesShape(s, <<"d", "d", "/", "d", "d", "/", "d", "d", "d", "d">>)
    \/ MatchesShape(s, <<"d", "d", "-", "d", "d", "-", "d", "d", "d", "d">>)

\* value.lower() in ['true', 'false', 'yes', 'no']
IsBooleanWord(s) ==
    Lower(s) \in {<<"t", "r", "u", "e">>, <<"f", "a", "l", "s", "e">>,
                  <<"y", "e", "s">>, <<"n", "o">>}

\* the dollar, euro, pound and yen signs, each one character
CurrencySymbols == {"$", "EUR", "GBP", "JPY"}

\* re.match(r'[\$...]\s*[\d,]+\.?\d*', value)
MatchesCurrency(s) ==
    /\ s # <<>>
    /\ s[1] \in CurrencySymbols
    /\ LET rest == Drop(Tail(s), PrefixLen(Tail(s), Whitespace))
       IN PrefixLen(rest, Digits \cup {","}) > 0

\* re.match(r'[\d,]+\.?\d*\s*%', value)
MatchesPercentage(s) ==
    LET n1 == PrefixLen(s, Digits \cup {","})
        r1 == Drop(s, n1)
        r2 == IF r1 # <<>> /\ r1[1] = "."
              THEN Drop(Tail(r1), PrefixLen(Tail(r1), Digits)) ELSE r1
        r3 == Drop(r2, PrefixLen(r2, Whitespace))
    IN n1 > 0 /\ r3 # <<>> /\ r3[1] = "%"

_detect_data_type(raw) ==
    LET value == Strip(raw)
    IN IF value = <<>> THEN "empty"
       ELSE IF FloatParses(WithoutCommas(value)) THEN "numeric"
       ELSE IF MatchesDate(value) THEN "date"
       ELSE IF IsBooleanWord(value) THEN "boolean"
       ELSE IF MatchesCurrency(value) THEN "currency"
       ELSE IF MatchesPercentage(value) THEN "percentage"
       ELSE "text"

(***************************************************************************)
(* TableParserAgent._calculate_statistics and parse_tables on text         *)
(***************************************************************************)
RECURSIVE SumOver(_, _)
\* sum(f[i] for i in 1..n)
SumOver(f, n) == IF n = 0 THEN 0 ELSE f[n] + SumOver(f, n - 1)

AllTypes == {"empty", "numeric", "date", "boolean", "currency", "percentage", "text"}

\* the cells type inference looks at: (table, row, key) over the first 10 rows
\* of every table
SampledCells(tables) ==
    UNION {{<<p[1], p[2], key>> : key \in DOMAIN tables[p[1]].data[p[2]]} :
             p \in {q \in (1..Len(tables)) \X (1..10) :
                      q[2] <= Len(Get(tables[q[1]], "data", <<>>))}}

\* stats['data_types']: how many sampled cells have each type
DataTypeCounts(tables) ==
    LET typeOf(c) == _detect_data_type(tables[c[1]].data[c[2]][c[3]])
        seen      == {typeOf(c) : c \in SampledCells(tables)}
    IN [t \in seen |-> Cardinality({c \in SampledCells(tables) : typeOf(c) = t})]

_calculate_statistics(tables) ==
    LET rows == SumOver([i \in 1..Len(tables) |-> Get(tables[i], "rows", 0)], Len(tables))
        cols == SumOver([i \in 1..Len(tables) |-> Get(tables[i], "columns", 0)], Len(tables))
    IN [total_tables    |-> Len(tables),
        total_rows      |-> rows,
        total_columns   |-> cols,
        average_rows    |-> IF tables = <<>> THEN Rat(0, 1) ELSE Rat(rows, Len(tables)),
        average_columns |-> IF tables = <<>> THEN Rat(0, 1) ELSE Rat(cols, Len(tables)),
        data_types      |-> DataTypeCounts(tables)]

\* parse_tables(text, source_type='text')
WithStatistics(result) ==
    IF result.tables # <<>>
    THEN Put(result, "statistics", _calculate_statistics(result.tables))
    ELSE result

parse_tables_text(text, probe) == WithStatistics(_parse_text_tables(text, probe))

(***************************************************************************)
(* DocumentProcessor                                                       *)
(*                                                                         *)
(* A file is [name, ext, exists, size, statRaises]; what the sub-agents    *)
(* find in it is fixed per file (FileOcrWorld, FileProbe, FileText,        *)
(* FileTables below).  The cache key, an MD5 digest of the path and the    *)
(* sorted options, is the pair of the two.                                 *)
(***************************************************************************)
\* bool(d) of a dict or None
Truthy(d) == DOMAIN d # {}

_is_image_file(ext) ==
    ext \in {".png", ".jpg", ".jpeg", ".gif", ".bmp", ".tiff", ".tif"}

\* a dispatch that takes every extension that is not an image's for a document's
NotAnImage(ext) == ~_is_image_file(ext)

_is_text_document(ext) ==
    ext \in {".pdf", ".docx", ".doc", ".txt", ".html", ".xml", ".csv", ".xlsx",
             ".xls", ".pptx", ".ppt", ".md", ".json"}

_get_cache_key(file, options) == <<file.name, options>>

\* text.split(): the maximal runs of non-whitespace characters
RECURSIVE Words(_)
Words(s) ==
    LET t == LStrip(s)
        w == CHOOSE k \in 0..Len(t) :
                /\ \A i \in 1..k : t[i] \notin Whitespace
                /\ (k < Len(t) => t[k + 1] \in Whitespace)
    IN IF t = <<>> THEN <<>> ELSE <<SubSeq(t, 1, w)>> \o Words(Drop(t, w))

\* text_parser.get_statistics(text): the counts the model keeps
get_statistics(text) == [characters |-> Len(text), words |-> Len(Words(text))]

\* _format_as_text: formatted_output is the pieces it joins, by their origin
_format_as_text(result) ==
    Put(result, "formatted_output",
        [k \in {x \in {"text", "ocr_text", "tables"} :
                  x \in DOMAIN result.content /\ result.content[x] # <<>>}
           |-> result.content[k]])

_format_as_structured(result) ==
    Put(result, "structured_output",
        [summary |->
            [file |-> result.file,
             type |-> result.metadata.file_type,
             size |-> result.metadata.file_size,
             text_length  |-> Len(Get(result.content, "text", <<>>)),
             tables_found |-> Len(Get(result.content, "tables", <<>>)),
             errors       |-> Len(result.errors)],
         content    |-> result.content,
         metadata   |-> result.metadata,
         statistics |-> result.statistics])

\* a step of a processing path: the result so far, the sub-calls made so
\* far and the error strings those sub-calls reported
Step(result, calls, reported) ==
    [result |-> result, calls |-> calls, reported |-> reported]

\* _process_image_document after the OCR call: ocr_result is what the agent
\* returned and table_result what parse_tables returns for its text
ImageAfterOcr(cfg, options, result, ocr_result, ocrCalls, table_result) ==
    LET content == Put(Put(result.content, "ocr_text", Get(ocr_result, "text", <<>>)),
                       "text_blocks", Get(ocr_result, "blocks", <<>>))
        withOcr == [result EXCEPT
                      !.content  = IF Truthy(Get(ocr_result, "layout", EmptyDict))
                                   THEN Put(content, "layout", ocr_result.layout)
                                   ELSE content,
                      !.metadata = Put(@, "ocr_confidence",
                                       Get(ocr_result, "confidence", Rat(0, 1))),
                      !.errors   = @ \o Get(ocr_result, "errors", <<>>)]
    IN IF cfg.enable_tables /\ Get(options, "extract_tables", TRUE)
          /\ Get(ocr_result, "text", <<>>) # <<>>
       THEN Step([withOcr EXCEPT
                    !.content = IF Get(table_result, "tables", <<>>) # <<>>
                                THEN Put(@, "tables", table_result.tables) ELSE @],
                 ocrCalls \o <<"table_parser.parse_tables">>,
                 Range(ocr_result.errors) \cup Range(table_result.errors))
       ELSE Step(withOcr, ocrCalls, Range(ocr_result.errors))

\* the OCR call of _process_image_document and what follows it
ImageWithOcr(cfg, options, result, ocr, probe) ==
    ImageAfterOcr(cfg, options, result, ocr.result,
                  <<"ocr_agent.process_document">> \o ocr.calls,
                  parse_tables_text(Get(ocr.result, "text", <<>>), probe))

\* _process_image_document
_process_image_document(cfg, engine, file, options, result, ocrWorldOf, probe) ==
    IF cfg.enable_ocr /\ Get(options, "ocr_images", TRUE)
    THEN ImageWithOcr(cfg, options, result,
                      process_document(engine, ocrWorldOf,
                        [preprocess           |-> Get(options, "ocr_preprocess", TRUE),
                         detect_layout        |-> Get(options, "detect_layout", FALSE),
                         confidence_threshold |->
                             Get(options, "confidence_threshold", Rat(50, 1))]),
                      probe)
    ELSE Step([result EXCEPT !.errors =
                  Append(@, "OCR not enabled or not available for image processing")],
              <<>>, {})

\* the keys of b added to a: dict.update
Update(a, b) == [k \in (DOMAIN a) \cup (DOMAIN b) |-> IF k \in DOMAIN b THEN b[k] ELSE a[k]]

\* _process_text_document; text_result and table_result are what
\* text_parser.parse and table_parser.parse_tables(path, 'auto') return for
\* the file
_process_text_document(cfg, file, options, result, text_result, table_result) ==
    LET doText   == Get(options, "extract_text", TRUE)
        doTables == cfg.enable_tables /\ Get(options, "extract_tables", TRUE)
        afterText ==
            IF doText
            THEN [result EXCEPT
                    !.content = LET c == Put(@, "text", Get(text_result, "text", <<>>))
                                IN IF Truthy(Get(text_result, "structure", EmptyDict))
                                   THEN Put(c, "structure", text_result.structure) ELSE c,
                    !.metadata = Update(@, Get(text_result, "metadata", EmptyDict)),
                    !.errors = @ \o Get(text_result, "errors", <<>>),
                    !.statistics = IF Get(text_result, "text", <<>>) # <<>>
                                   THEN get_statistics(text_result.text) ELSE @]
            ELSE result
        afterTables ==
            IF doTables
            THEN [afterText EXCEPT
                    !.content = IF Get(table_result, "tables", <<>>) # <<>>
                                THEN Put(@, "tables", table_result.tables) ELSE @,
                    !.statistics =
                        IF Get(table_result, "tables", <<>>) # <<>>
                        THEN Put(Put(@, "table_count", Len(table_result.tables)),
                                 "table_statistics",
                                 Get(table_result, "statistics", EmptyDict))
                        ELSE @,
                    !.errors = @ \o Get(table_result, "errors", <<>>)]
            ELSE afterText
        final ==
            IF file.ext = ".pdf" /\ Get(options, "extract_images", FALSE)
            THEN [afterTables EXCEPT !.content = Put(@, "embedded_images", <<>>)]
            ELSE afterTables
    IN Step(final,
            (IF doText THEN <<"text_parser.parse">> ELSE <<>>)
            \o (IF doTables THEN <<"table_parser.parse_tables">> ELSE <<>>),
            (IF doText THEN Range(text_result.errors) ELSE {})
            \cup (IF doTables THEN Range(table_result.errors) ELSE {}))

\* the result dict process starts from
BlankResult(file, now) ==
    [file |-> file.name, timestamp |-> now, content |-> EmptyDict,
     metadata |-> EmptyDict, statistics |-> EmptyDict, errors |-> <<>>]

\* the "Format output" step of process
FormatOutput(options, result) ==
    IF Get(options, "output_format", "json") = "text" THEN _format_as_text(result)
    ELSE IF Get(options, "output_format", "json") = "structured"
    THEN _format_as_structured(result)
    ELSE result

\* the result once the file's type and size are recorded
Started(result, file) ==
    [result EXCEPT !.metadata = Put(Put(@, "file_type", file.ext), "file_size", file.size)]

\* "Determine processing strategy": the method process hands the file to
Route(ext) ==
    IF _is_image_file(ext) THEN "_process_image_document"
    ELSE IF _is_text_document(ext) THEN "_process_text_document"
    ELSE "unsupported"

\* the end of a processing path that reaches the "Format output" step
Formatted(options, step, path) ==
    [step |-> [step EXCEPT !.result = FormatOutput(options, @)], completes |-> TRUE,
     path |-> path]

\* process(file_path, options) on a cache miss: the step it ends with and
\* whether it reaches the "Cache result" lines
ProcessMiss(cfg, engine, file, options, now, ocrWorldOf, probe, text_result, table_result) ==
    LET result == BlankResult(file, now)
    IN IF ~file.exists
       THEN [step |-> Step([result EXCEPT !.errors = <<"File not found">>], <<>>, {}),
             completes |-> FALSE, path |-> "none"]
       ELSE IF file.statRaises
       THEN [step |-> Step([result EXCEPT
                              !.metadata = Put(@, "file_type", file.ext),
                              !.errors = <<"Processing error">>], <<>>, {}),
             completes |-> FALSE, path |-> "none"]
       ELSE Formatted(options,
                IF Route(file.ext) = "_process_image_document"
                THEN _process_image_document(cfg, engine, file, options,
                                             Started(result, file), ocrWorldOf, probe)
                ELSE IF Route(file.ext) = "_process_text_document"
                THEN _process_text_document(cfg, file, options, Started(result, file),
                                            text_result, table_result)
                ELSE Step([Started(result, file) EXCEPT
                             !.errors = <<"Unsupported file type">>], <<>>, {}),
                Route(file.ext))

\* `if self.cache:` on the "Cache result" lines: the dict is stored into only
\* when it is already non-empty
CacheStores(c) == Truthy(c)

\* `if self.cache and cache_key in self.cache:`
CacheHit(c, key) == Truthy(c) /\ key \in DOMAIN c

(***************************************************************************)
(* Specification SpecOcr: one DocumentOCRAgent, one image, one call        *)
(***************************************************************************)
MaxSpans == 2
\* how many runs of equal column sums a page's projection has
MaxRuns  == 3

Engines == {NoEngine, "tesseract", "easyocr"}

\* the values of the ocr_engine argument
Preferences == {"auto", "tesseract", "easyocr"}

TesseractSpanKinds ==
    {[text |-> t, conf |-> c] : t \in {<<"a">>, <<" ">>}, c \in {-1, 0, 29, 60, 100}}

EasyocrSpanKinds ==
    {[text |-> t, conf |-> c] :
        t \in {<<"a">>, <<"b">>}, c \in {Rat(0, 1), Rat(1, 4), Rat(42, 100), Rat(1, 1)}}

\* image_to_data rows: the i-th span sits at left = i
TesseractSpans(kinds) ==
    [i \in 1..Len(kinds) |->
        [text |-> kinds[i].text, conf |-> kinds[i].conf,
         left |-> i, top |-> 0, width |-> 1, height |-> 1, level |-> 5]]

\* readtext triples: the i-th span is the unit square at x = i
EasyocrSpans(kinds) ==
    [i \in 1..Len(kinds) |->
        [text |-> kinds[i].text, conf |-> kinds[i].conf,
         quad |-> <<<<i, 0>>, <<i + 1, 0>>, <<i + 1, 1>>, <<i, 1>>>>]]

\* a one-pixel page, OpenCV installed
PlainImage ==
    [cv2 |-> TRUE, raises |-> "no", height |-> 1,
     runs |-> <<[val |-> 0, len |-> 1]>>, contours |-> <<>>]

OcrWorld(raises, pageText, spans) ==
    [raises |-> raises, pageText |-> pageText, spans |-> spans,
     image |-> PlainImage]

TesseractWorlds ==
    {OcrWorld("no", p, TesseractSpans(k)) :
        p \in {<<>>, <<"a">>}, k \in SeqsUpTo(TesseractSpanKinds, MaxSpans)}
    \cup {OcrWorld(r, <<"a">>, <<>>) :
            r \in {"_load_image", "image_to_string", "image_to_data"}}

EasyocrWorlds ==
    {OcrWorld("no", <<>>, EasyocrSpans(k)) : k \in SeqsUpTo(EasyocrSpanKinds, MaxSpans)}
    \cup {OcrWorld(r, <<>>, <<>>) : r \in {"_load_image", "readtext"}}

\* runs of dark (0) and inked (2) columns, one column or thirty wide
ProfileRuns == [val : {0, 2}, len : {1, 30}]

\* a small contour and one whose bounding box is larger than 1000 pixels
ContourLists ==
    {<<>>, <<[x |-> 0, y |-> 0, w |-> 10, h |-> 10], [x |-> 0, y |-> 20, w |-> 30, h |-> 40]>>}

\* pages of up to MaxRuns runs, low and high, and the ways _detect_layout
\* can fail on one of them
LayoutImages ==
    {[cv2 |-> TRUE, raises |-> "no", height |-> h, runs |-> r, contours |-> c] :
        h \in {20, 100}, r \in SeqsUpTo(ProfileRuns, MaxRuns) \ {<<>>},
        c \in ContourLists}
    \cup {[cv2 |-> v, raises |-> x, height |-> 20,
           runs |-> <<[val |-> 2, len |-> 30], [val |-> 0, len |-> 30],
                      [val |-> 2, len |-> 30]>>,
           contours |-> <<[x |-> 0, y |-> 0, w |-> 30, h |-> 40]>>] :
          v \in BOOLEAN, x \in {"no", "cvtColor", "threshold", "findContours"}}

\* images with nothing recognised in them, for layout detection
LayoutWorlds(pageText) ==
    {[OcrWorld("no", pageText, <<>>) EXCEPT !.image = i] : i \in LayoutImages}

\* the OpenCV calls of preprocessing that may raise
PreprocessRaises == {"cvtColor", "medianBlur", "adaptiveThreshold", "minAreaRect"}

\* images on which a preprocessing step raises
PreprocessWorlds(pageText) == {OcrWorld(r, pageText, <<>>) : r \in PreprocessRaises}

OcrWorlds(engine) ==
    IF engine = "easyocr"
    THEN EasyocrWorlds \cup LayoutWorlds(<<>>) \cup PreprocessWorlds(<<>>)
    ELSE IF engine = "tesseract"
    THEN TesseractWorlds \cup LayoutWorlds(<<"a">>) \cup PreprocessWorlds(<<"a">>)
    ELSE {OcrWorld("no", <<"a">>, <<>>), OcrWorld("_load_image", <<"a">>, <<>>)}

RECURSIVE DictsOver(_)
\* all dicts that give each key of a key |-> values map one of its values, or omit it
DictsOver(choices) ==
    IF DOMAIN choices = {} THEN {EmptyDict}
    ELSE LET k    == CHOOSE x \in DOMAIN choices : TRUE
             rest == DictsOver([x \in (DOMAIN choices) \ {k} |-> choices[x]])
         IN rest \cup {Put(d, k, v) : d \in rest, v \in choices[k]}

OcrOptionSets ==
    DictsOver([confidence_threshold |-> {Rat(50, 1), Rat(3, 10)},
               detect_layout        |-> {TRUE},
               preprocess           |-> {FALSE}])

\* the preprocessing switches, each given against its default or omitted
PreprocessOptionSets ==
    DictsOver([preprocess |-> {FALSE}, denoise |-> {FALSE},
               enhance_contrast |-> {FALSE}, deskew |-> {TRUE}])

\* the state of a DocumentProcessor that is constructed and never called
ProcIdle ==
    /\ config = [enable_ocr |-> TRUE, enable_tables |-> TRUE, cache_results |-> TRUE]
    /\ cache = EmptyDict
    /\ clock = 0
    /\ used = {}
    /\ prev = [made |-> FALSE]
    /\ last = [made |-> FALSE]
    /\ threads = <<>>

\* the state of a TableParserAgent that is never called
TblIdle ==
    /\ tblOp = "idle"
    /\ tblIn = EmptyDict
    /\ tblOut = EmptyDict
    /\ tblDone = FALSE

InitOcr ==
    /\ ocrInstalled \in SUBSET Backends
    /\ ocrPreference \in Preferences
    /\ ocrEngine = _select_engine(ocrPreference, ocrInstalled)
    /\ ocrWorld \in OcrWorlds(ocrEngine)
    /\ ocrOptions \in OcrOptionSets \cup PreprocessOptionSets
    /\ ocrWorld.image # PlainImage => Get(ocrOptions, "detect_layout", FALSE)
    /\ ocrWorld.image.raises = "cvtColor" => ~Get(ocrOptions, "preprocess", TRUE)
    /\ ocrWorld.raises \in PreprocessRaises => ocrOptions \in PreprocessOptionSets
    /\ ocrOptions \notin OcrOptionSets => ocrWorld.spans = <<>>
    /\ ocrOut = EmptyDict
    /\ TblIdle
    /\ ProcIdle

\* agent.process_document(image, options)
OcrProcess ==
    /\ ocrOut = EmptyDict
    /\ ocrOut' = process_document(ocrEngine, ocrWorld, ocrOptions)
    /\ UNCHANGED <<ocrInstalled, ocrPreference, ocrEngine, ocrWorld, ocrOptions>>

(***************************************************************************)
(* Specification SpecTable: one TableParserAgent, one argument, one call   *)
(***************************************************************************)
MaxCells   == 2
MaxRows    == 2
MaxHeaders == 3
MaxCellLen == 3
\* how many rows the longest table given to _calculate_statistics has
MaxStatRows == 11
\* how many lines a text given to _detect_text_tables has
MaxLines   == 4

CellWords == {<<"a">>, <<"b">>}

\* "| c1 | c2 |"
PipeLine(cells) ==
    <<"|">> \o Join(<<>>, [i \in 1..Len(cells) |-> <<" ">> \o cells[i] \o <<" ", "|">>])

TextLines ==
    {PipeLine(c) : c \in SeqsUpTo(CellWords, MaxCells) \ {<<>>}} \cup {<<"|", "-", "|">>}

\* the three lines of the text-table scenario
ScenarioText ==
    <<"N", "a", "m", "e", " ", "|", " ", "A", "g", "e", " ", "|", " ", "D", "e", "p", "t", "\n",
      "J", "o", "h", "n", " ", "|", " ", "3", "0", " ", " ", "|", " ", "E", "n", "g", "\n",
      "J", "a", "n", "e", " ", "|", " ", "2", "8", " ", " ", "|", " ", "H", "R">>

\* two-line blocks delimited by tabs, by runs of blanks, and by commas behind
\* leading tabs
OtherDelimiterTexts ==
    {<<"a", "\t", "b", "\t", "c", "\n", "1", "\t", "2", "\t", "3">>,
     <<"a", " ", " ", "b", " ", " ", "c", " ", " ", "d", "\n",
       "1", " ", " ", "2", " ", " ", "3", " ", " ", "4">>,
     <<"\t", "\t", "a", ",", "b", "\n", "\t", "\t", "c", ",", "d">>}

\* blocks of pipe-delimited lines: a first line and up to MaxRows more
TextInputs ==
    {Join(<<"\n">>, ls) : ls \in {l \in SeqsUpTo(TextLines, MaxRows + 1) : Len(l) >= 2}}
    \cup {ScenarioText} \cup OtherDelimiterTexts

\* a row of n cells: all td, all th, or a th followed by td
HtmlRowsOfLen(n) ==
    {[i \in 1..n |-> [tag |-> IF i <= k THEN "th" ELSE "td", text |-> <<"v">> \o IntStr(i)]] :
        k \in {0, 1, n}}

HtmlRowKinds == UNION {HtmlRowsOfLen(n) : n \in 0..MaxCells}

HtmlHeadRows ==
    {[i \in 1..Len(c) |-> [tag |-> t, text |-> c[i]]] :
        c \in SeqsUpTo(CellWords, MaxCells) \ {<<>>}, t \in {"th", "td"}}

HtmlInputs ==
    {[hasThead |-> FALSE, theadRows |-> <<>>, hasTbody |-> b, bodyRows |-> r] :
        b \in BOOLEAN, r \in SeqsUpTo(HtmlRowKinds, MaxRows)}
    \cup {[hasThead |-> TRUE, theadRows |-> h, hasTbody |-> b, bodyRows |-> r] :
            h \in {<<>>} \cup {<<x>> : x \in HtmlHeadRows},
            b \in BOOLEAN, r \in SeqsUpTo(HtmlRowKinds, MaxRows)}

\* "c1,c2"
CsvLine(cells) == Join(<<",">>, cells)

\* CSV text of up to MaxRows + 1 lines, blank lines among them
CsvInputs ==
    {Join(<<"\n">>, ls) :
        ls \in SeqsUpTo({CsvLine(c) : c \in SeqsUpTo(CellWords, MaxCells)}, MaxRows + 1)}

SheetCells == {<<"1">>, NaN}

\* sheets of one or two columns, the names " a" and "a" differing in a blank
Sheets ==
    UNION {[name : {<<"S">>}, columns : {c}, rows : SeqsUpTo([1..Len(c) -> SheetCells], MaxRows)] :
             c \in {<<<<"a">>>>, <<<<"a">>, <<"b">>>>, <<<<" ", "a">>, <<"a">>>>}}

ExcelInputs ==
    {[pd |-> FALSE, raises |-> FALSE, sheets |-> <<>>],
     [pd |-> TRUE, raises |-> TRUE, sheets |-> <<>>]}
    \cup {[pd |-> TRUE, raises |-> FALSE, sheets |-> <<s>>] : s \in Sheets}
    \cup {[pd |-> TRUE, raises |-> FALSE, sheets |-> <<s, s>>] : s \in Sheets}

\* lines with two pipes, one pipe, two tabs, three and two runs of blanks,
\* and the empty line
DetectLines ==
    {<<"|", "a", "|">>, <<"a", "|", "b">>, <<"a", "\t", "b", "\t", "c">>,
     <<"a", " ", " ", "b", " ", " ", " ", "c", " ", " ", "d">>,
     <<"a", " ", " ", "b", " ", " ", "c">>, <<>>}

\* texts of up to MaxLines lines
DetectInputs ==
    {Join(<<"\n">>, ls) : ls \in SeqsUpTo(DetectLines, MaxLines) \ {<<>>}}

\* a parsed table of n rows under the given headers, numbers in the odd rows
\* and words in the even ones
StatTable(n, headers) ==
    [data    |-> [k \in 1..n |->
                    [h \in Range(headers) |-> IF k % 2 = 1 THEN <<"1">> ELSE <<"a">>]],
     headers |-> headers, rows |-> n, columns |-> Len(headers)]

\* lists of up to two tables of one, two or MaxStatRows rows
StatInputs ==
    SeqsUpTo({StatTable(n, h) : n \in {1, 2, MaxStatRows},
                                h \in {<<<<"a">>>>, <<<<"a">>, <<"b">>>>}}, 2)

HeaderWords == {<<>>, <<"a">>, <<"b">>, <<"a", "_", "2">>}

DataLists ==
    LET r1 == [x \in {<<"a">>} |-> <<"1">>]
        r2 == [x \in {<<"a">>, <<"b">>} |-> <<"1">>]
    IN {<<>>, <<r1>>, <<r2>>, <<r1, r1>>, <<r1, r2>>}

ValidateInputs ==
    {[headers |-> h, data |-> d] : h \in SeqsUpTo(HeaderWords, MaxHeaders), d \in DataLists}
    \cup {[data |-> d] : d \in DataLists}
    \cup {[headers |-> h] : h \in SeqsUpTo(HeaderWords, MaxHeaders)}

CellAlphabet == {"1", ",", ".", "$", "%", "-", " ", "e", "n", "o", "a"}

\* the cells of the type-inference scenario and some more
ScenarioCells ==
    {<<"$", "1", ",", "2", "5", "0", ".", "0", "0">>,
     <<"4", "5", "%">>,
     <<"2", "0", "2", "4", "-", "0", "1", "-", "1", "5">>,
     <<"0", "1", "/", "1", "5", "/", "2", "0", "2", "4">>,
     <<"0", "1", "-", "1", "5", "-", "2", "0", "2", "4">>,
     <<"y", "e", "s">>, <<"Y", "E", "S">>, <<"T", "r", "u", "e">>,
     <<"f", "a", "l", "s", "e">>, <<"N", "o">>,
     <<"I", "n", "f">>, <<"1", "_", "0">>, <<"1", "e", "+", "1">>,
     <<"EUR", " ", "5">>, <<"4", "5", "%", " ", "o", "f", "f">>,
     <<"1", ".", "5", " ", "%">>, <<"\t">>,
     <<"a", "b", "c">>}

TypeInputs == SeqsUpTo(CellAlphabet, MaxCellLen) \cup ScenarioCells

TableOps == {"_parse_text_tables", "_parse_html_table_element", "_detect_text_tables",
             "_calculate_statistics",
             "_parse_csv_table", "_parse_excel_tables",
             "validate_table_structure", "_detect_data_type"}

TableInputs(op) ==
    CASE op = "_parse_text_tables"        -> TextInputs
      [] op = "_parse_html_table_element" -> HtmlInputs
      [] op = "_parse_csv_table"          -> CsvInputs
      [] op = "_detect_text_tables"       -> DetectInputs
      [] op = "_calculate_statistics"     -> StatInputs
      [] op = "_parse_excel_tables"       -> ExcelInputs
      [] op = "validate_table_structure"  -> ValidateInputs
      [] op = "_detect_data_type"         -> TypeInputs

InitTbl ==
    /\ tblOp \in TableOps
    /\ tblIn \in TableInputs(tblOp)
    /\ tblOut = EmptyDict
    /\ tblDone = FALSE
    /\ ocrInstalled = {} /\ ocrPreference = "auto" /\ ocrEngine = NoEngine
    /\ ocrWorld = EmptyDict /\ ocrOptions = EmptyDict
    /\ ocrOut = EmptyDict
    /\ ProcIdle

\* agent._parse_text_tables(text, options), the text naming no file
TblParseText ==
    /\ tblOp = "_parse_text_tables" /\ ~tblDone
    /\ tblOut' = _parse_text_tables(tblIn, <<"absent">>)
    /\ tblDone' = TRUE
    /\ UNCHANGED <<tblIn, tblOp>>

\* agent._parse_html_table_element(table, 0)
TblParseHtml ==
    /\ tblOp = "_parse_html_table_element" /\ ~tblDone
    /\ tblOut' = _parse_html_table_element(tblIn, 0)
    /\ tblDone' = TRUE
    /\ UNCHANGED <<tblIn, tblOp>>

\* agent._parse_csv_table(source, {}), the text naming no file
TblParseCsv ==
    /\ tblOp = "_parse_csv_table" /\ ~tblDone
    /\ tblOut' = _parse_csv_table(tblIn)
    /\ tblDone' = TRUE
    /\ UNCHANGED <<tblIn, tblOp>>

\* agent._parse_excel_tables(file_path, {})
TblParseExcel ==
    /\ tblOp = "_parse_excel_tables" /\ ~tblDone
    /\ tblOut' = _parse_excel_tables(tblIn)
    /\ tblDone' = TRUE
    /\ UNCHANGED <<tblIn, tblOp>>

\* agent._detect_text_tables(text, {})
TblDetectTables ==
    /\ tblOp = "_detect_text_tables" /\ ~tblDone
    /\ tblOut' = _detect_text_tables(tblIn)
    /\ tblDone' = TRUE
    /\ UNCHANGED <<tblIn, tblOp>>

\* agent._calculate_statistics(tables)
TblStatistics ==
    /\ tblOp = "_calculate_statistics" /\ ~tblDone
    /\ tblOut' = _calculate_statistics(tblIn)
    /\ tblDone' = TRUE
    /\ UNCHANGED <<tblIn, tblOp>>

\* agent.validate_table_structure(table)
TblValidate ==
    /\ tblOp = "validate_table_structure" /\ ~tblDone
    /\ tblOut' = validate_table_structure(tblIn)
    /\ tblDone' = TRUE
    /\ UNCHANGED <<tblIn, tblOp>>

\* agent._detect_data_type(value)
TblDetectType ==
    /\ tblOp = "_detect_data_type" /\ ~tblDone
    /\ tblOut' = _detect_data_type(tblIn)
    /\ tblDone' = TRUE
    /\ UNCHANGED <<tblIn, tblOp>>

(***************************************************************************)
(* Specification Spec: one DocumentProcessor and the files it is given     *)
(***************************************************************************)
MaxCalls == 3
\* how many different (file, options) pairs one run of the processor is given
MaxKeys  == 1

File(name, ext, exists, statRaises) ==
    [name |-> name, ext |-> ext, exists |-> exists, size |-> 1, statRaises |-> statRaises]

Files ==
    {File("scan.png", ".png", TRUE, FALSE), File("dot.png", ".png", TRUE, FALSE),
     File("bad.png", ".png", TRUE, FALSE),  File("gone.png", ".png", FALSE, FALSE),
     File("doc.txt", ".txt", TRUE, FALSE),  File("bad.pdf", ".pdf", TRUE, FALSE),
     File("race.txt", ".txt", TRUE, TRUE),  File("x.xyz", ".xyz", TRUE, FALSE)}

\* a two-line table, as a page of text
SmallTableText == <<"|", "a", "|", "b", "|", "\n", "|", "1", "|", "2", "|">>

\* what the OCR engine finds in an image file
FileOcrWorld(file, engine) ==
    IF file.name = "bad.png" THEN OcrWorld("_load_image", <<>>, <<>>)
    ELSE IF engine = "easyocr"
    THEN OcrWorld("no", <<>>,
                  EasyocrSpans(<<[text |-> IF file.name = "dot.png" THEN <<".">>
                                           ELSE <<"a">>,
                                  conf |-> Rat(42, 100)]>>))
    ELSE OcrWorld("no", IF file.name = "dot.png" THEN <<".">> ELSE SmallTableText,
                  TesseractSpans(<<[text |-> <<"a">>, conf |-> 60]>>))

\* what the file system answers when the OCR text of the image is taken for
\* a path: the text "." of dot.png names a directory
FileProbe(file) == IF file.name = "dot.png" THEN <<"raises">> ELSE <<"absent">>

\* text_parser.parse(path): a readable text file, or a PDF with no PDF
\* library installed
FileText(file) ==
    IF file.ext = ".pdf"
    THEN [text |-> <<>>, metadata |-> EmptyDict, structure |-> EmptyDict,
          errors |-> <<"PyPDF2 not installed">>]
    ELSE [text |-> SmallTableText, metadata |-> [format |-> "text"],
          structure |-> EmptyDict, errors |-> <<>>]

\* table_parser.parse_tables(path, 'auto'): the tables in the text of a text
\* file, or the error of a PDF with no PDF table library installed
FileTables(file) ==
    IF file.ext = ".pdf"
    THEN [tables |-> <<>>, metadata |-> [source |-> "pdf"],
          errors |-> <<"No PDF table parser available. Install camelot-py or tabula-py.">>]
    ELSE parse_tables_text(<<"p">>, <<"file", SmallTableText>>)

ProcessOptionSets ==
    {EmptyDict,
     [ocr_images |-> FALSE], [extract_tables |-> FALSE], [extract_text |-> FALSE],
     [output_format |-> "text"], [output_format |-> "structured"],
     [confidence_threshold |-> Rat(3, 10)],
     [preprocess |-> FALSE], [detect_layout |-> TRUE]}

NoCall == [made |-> FALSE]

Configs == [enable_ocr : BOOLEAN, enable_tables : BOOLEAN, cache_results : BOOLEAN]

\* DocumentProcessor(config); the agent's engine is the one _select_engine
\* found installed
Init ==
    /\ config \in Configs
    /\ ocrInstalled \in (IF config.enable_ocr THEN SUBSET Backends ELSE {{}})
    /\ ocrPreference = "auto"
    /\ ocrEngine = (IF config.enable_ocr
                    THEN _select_engine(ocrPreference, ocrInstalled) ELSE NoEngine)
    /\ ocrWorld = EmptyDict /\ ocrOptions = EmptyDict /\ ocrOut = EmptyDict
    /\ cache = (IF config.cache_results THEN EmptyDict ELSE None)
    /\ clock = 0
    /\ used = {}
    /\ prev = NoCall
    /\ last = NoCall
    /\ threads = <<>>
    /\ tblOp = "idle" /\ tblIn = EmptyDict /\ tblOut = EmptyDict /\ tblDone = FALSE

\* what process returns for the key, and what it leaves in the cache; miss is
\* what the processing path computes when the key is not served from the cache
Returns(key, miss) ==
    IF CacheHit(cache, key)
    THEN /\ last' = [made |-> TRUE, key |-> key, hit |-> TRUE,
                     result |-> cache[key], calls |-> <<>>, reported |-> {},
                     path |-> "cache"]
         /\ cache' = cache
    ELSE /\ last' = [made |-> TRUE, key |-> key, hit |-> FALSE,
                     result |-> miss.step.result, calls |-> miss.step.calls,
                     reported |-> miss.step.reported, path |-> miss.path]
         /\ cache' = IF miss.completes /\ CacheStores(cache)
                     THEN Put(cache, key, miss.step.result) ELSE cache

\* processor.process(file, options)
Process(file, options) ==
    /\ clock < MaxCalls
    /\ \/ _get_cache_key(file, options) \in used
       \/ Cardinality(used) < MaxKeys
    /\ used' = used \cup {_get_cache_key(file, options)}
    /\ Returns(_get_cache_key(file, options),
               ProcessMiss(config, ocrEngine, file, options, clock + 1,
                           FileOcrWorld(file, ocrEngine), FileProbe(file),
                           FileText(file), FileTables(file)))
    /\ prev' = last
    /\ clock' = clock + 1
    /\ UNCHANGED <<config, threads, ocrVars, tblVars>>

Next == \E file \in Files, options \in ProcessOptionSets : Process(file, options)

Spec == Init /\ [][Next]_vars

NextOcr == OcrProcess /\ UNCHANGED <<tblVars, procVars>>

SpecOcr == InitOcr /\ [][NextOcr]_vars

NextTbl ==
    \/ TblParseText /\ UNCHANGED <<ocrVars, procVars>>
    \/ TblParseHtml /\ UNCHANGED <<ocrVars, procVars>>
    \/ TblParseCsv /\ UNCHANGED <<ocrVars, procVars>>
    \/ TblDetectTables /\ UNCHANGED <<ocrVars, procVars>>
    \/ TblStatistics /\ UNCHANGED <<ocrVars, procVars>>
    \/ TblParseExcel /\ UNCHANGED <<ocrVars, procVars>>
    \/ TblValidate /\ UNCHANGED <<ocrVars, procVars>>
    \/ TblDetectType /\ UNCHANGED <<ocrVars, procVars>>

SpecTable == InitTbl /\ [][NextTbl]_vars

(***************************************************************************)
(* Two threads calling process at once on one DocumentProcessor, with the  *)
(* same path and options.  A call is the cache check, the processing       *)
(* (which stamps the result with the time it starts at and touches nothing *)
(* shared), the "Cache result" lines and the return; the wall clock moves  *)
(* on its own.                                                             *)
(***************************************************************************)
Threads == {1, 2}

\* how far the wall clock moves during a race
MaxTicks == 2

\* the files two threads race on
RaceFiles == {f \in Files : f.name \in {"scan.png", "gone.png", "doc.txt", "x.xyz"}}

\* the processor as Init builds it, and both threads about to call
\* process(file, options)
InitRace ==
    /\ config \in Configs
    /\ ocrInstalled \in (IF config.enable_ocr THEN SUBSET Backends ELSE {{}})
    /\ ocrPreference = "auto"
    /\ ocrEngine = (IF config.enable_ocr
                    THEN _select_engine(ocrPreference, ocrInstalled) ELSE NoEngine)
    /\ ocrWorld = EmptyDict /\ ocrOptions = EmptyDict /\ ocrOut = EmptyDict
    /\ cache = (IF config.cache_results THEN EmptyDict ELSE None)
    /\ clock = 0
    /\ used = {}
    /\ prev = NoCall
    /\ last = NoCall
    /\ \E file \in RaceFiles, options \in ProcessOptionSets :
          threads = [t \in Threads |->
                       [pc |-> "check", file |-> file, options |-> options,
                        result |-> NoCall]]
    /\ tblOp = "idle" /\ tblIn = EmptyDict /\ tblOut = EmptyDict /\ tblDone = FALSE

\* the key of the call thread t makes
ThreadKey(t) == _get_cache_key(threads[t].file, threads[t].options)

\* time passes
Tick ==
    /\ clock < MaxTicks
    /\ clock' = clock + 1
    /\ UNCHANGED <<config, cache, used, prev, last, threads>>

\* `if self.cache and cache_key in self.cache: return self.cache[cache_key]`
RaceCheck(t) ==
    /\ threads[t].pc = "check"
    /\ threads' = [threads EXCEPT ![t] =
                     IF CacheHit(cache, ThreadKey(t))
                     THEN [@ EXCEPT !.pc = "done", !.result = cache[ThreadKey(t)]]
                     ELSE [@ EXCEPT !.pc = "work"]]
    /\ UNCHANGED <<config, cache, clock, used, prev, last>>

\* thread t holds what its processing path computed
Worked(t, miss) ==
    threads' = [threads EXCEPT ![t] =
                  [@ EXCEPT !.pc = IF miss.completes THEN "store" ELSE "done",
                            !.result = miss.step.result]]

\* from `result = {...}` to the end of the "Format output" step
RaceWork(t) ==
    /\ threads[t].pc = "work"
    /\ Worked(t, ProcessMiss(config, ocrEngine, threads[t].file, threads[t].options,
                             clock, FileOcrWorld(threads[t].file, ocrEngine),
                             FileProbe(threads[t].file), FileText(threads[t].file),
                             FileTables(threads[t].file)))
    /\ UNCHANGED <<config, cache, clock, used, prev, last>>

\* `if self.cache: self.cache[cache_key] = result`, then `return result`
RaceStore(t) ==
    /\ threads[t].pc = "store"
    /\ cache' = IF CacheStores(cache)
                THEN Put(cache, ThreadKey(t), threads[t].result) ELSE cache
    /\ threads' = [threads EXCEPT ![t] = [@ EXCEPT !.pc = "done"]]
    /\ UNCHANGED <<config, clock, used, prev, last>>

NextRace ==
    \/ Tick /\ UNCHANGED <<ocrVars, tblVars>>
    \/ \E t \in Threads : RaceCheck(t) /\ UNCHANGED <<ocrVars, tblVars>>
    \/ \E t \in Threads : RaceWork(t) /\ UNCHANGED <<ocrVars, tblVars>>
    \/ \E t \in Threads : RaceStore(t) /\ UNCHANGED <<ocrVars, tblVars>>

SpecRace == InitRace /\ [][NextRace]_vars

(***************************************************************************)
(* Properties of DocumentProcessor.process (specification Spec)            *)
(***************************************************************************)
\* the file a call was made on
FileNamed(name) == CHOOSE f \in Files : f.name = name

\* the last two calls had the same path and options, the file exists and
\* can be read, and the processor was built with caching enabled
SameCallTwice ==
    /\ prev.made /\ last.made
    /\ config.cache_results
    /\ last.key = prev.key
    /\ FileNamed(last.key[1]).exists
    /\ ~FileNamed(last.key[1]).statRaises

\* C1: with caching enabled, a second process call with the same existing
\* path and the same options returns the result of the first, errors
\* included, and invokes no sub-agent
C1_CacheCorrectness ==
    SameCallTwice => (last.result = prev.result /\ last.calls = <<>>)

\* process ran the OCR step on an existing image with no engine selected
NoEngineOnImage ==
    /\ last.made
    /\ config.enable_ocr /\ ocrEngine = NoEngine
    /\ FileNamed(last.key[1]).exists
    /\ _is_image_file(FileNamed(last.key[1]).ext)
    /\ Get(last.key[2], "ocr_images", TRUE)

\* C2: with no OCR engine, process on an existing image returns empty OCR
\* text, no text blocks, OCR confidence 0 and the 'No OCR engine available'
\* error, and neither loads the image nor calls a backend
C2_NoEngine ==
    NoEngineOnImage =>
        /\ last.result.content.ocr_text = <<>>
        /\ last.result.content.text_blocks = <<>>
        /\ last.result.metadata.ocr_confidence.num = 0
        /\ "No OCR engine available. Install pytesseract or easyocr."
              \in Range(last.result.errors)
        /\ Range(last.calls)
              \cap {"_load_image", "_preprocess_image", "tesseract", "easyocr",
                    "_detect_layout"} = {}

C2_Witness ==
    /\ NoEngineOnImage
    /\ last.key = <<"scan.png", EmptyDict>>
    /\ last.calls = <<"ocr_agent.process_document">>
    /\ Len(last.result.errors) = 1

\* C9: every error string a sub-call of process reported is in the errors
\* list of the result process returns
C9_ErrorsAggregated ==
    last.made => last.reported \subseteq Range(last.result.errors)

(***************************************************************************)
(* Properties of the OCR agent (specification SpecOcr)                     *)
(***************************************************************************)
OcrDone == DOMAIN ocrOut # {}

\* a confidence on the 0-100 scale
InPercentRange(c) == c.num >= 0 /\ c.num <= 100 * c.den

\* the span of the image a block was made from: blocks keep the left edge
SpanOf(block) ==
    CHOOSE i \in 1..Len(ocrWorld.spans) :
        IF ocrEngine = "easyocr" THEN ocrWorld.spans[i].quad[1][1] = block.bbox.x
        ELSE ocrWorld.spans[i].left = block.bbox.x

\* C7: every returned block has a confidence in [0,100], and an EasyOCR
\* block has 100 times the native confidence of its span
C7_BlockConfidence ==
    OcrDone =>
        \A i \in 1..Len(ocrOut.result.blocks) :
            LET block == ocrOut.result.blocks[i]
            IN /\ InPercentRange(block.confidence)
               /\ ocrEngine = "easyocr" =>
                     /\ block.confidence.num * ocrWorld.spans[SpanOf(block)].conf.den
                          = 100 * ocrWorld.spans[SpanOf(block)].conf.num
                              * block.confidence.den

C7_Witness ==
    /\ OcrDone /\ ocrEngine = "easyocr"
    /\ \E i \in 1..Len(ocrOut.result.blocks) :
          /\ ocrWorld.spans[SpanOf(ocrOut.result.blocks[i])].conf = Rat(42, 100)
          /\ RatEq(ocrOut.result.blocks[i].confidence, Rat(42, 1))

\* the threshold a backend compares its spans with
ThresholdOf(engine) ==
    Get(ocrOptions, "confidence_threshold",
        IF engine = "easyocr" THEN Rat(3, 10) ELSE Rat(30, 1))

\* C8: spans below the threshold are dropped before aggregation: no span
\* below the threshold is returned as a block, and the document confidence
\* is the mean of the confidences of the returned blocks, 0 without blocks
C8_MeanOfReturnedBlocks ==
    OcrDone =>
        LET blocks == ocrOut.result.blocks
            confs  == [i \in 1..Len(blocks) |-> blocks[i].confidence]
        IN /\ \A i \in 1..Len(blocks) :
                 RatGe(IF ocrEngine = "easyocr"
                       THEN ocrWorld.spans[SpanOf(blocks[i])].conf
                       ELSE blocks[i].confidence,
                       ThresholdOf(ocrEngine))
           /\ IF blocks = <<>> THEN ocrOut.result.confidence.num = 0
              ELSE RatEq(RatTimes(ocrOut.result.confidence, Len(blocks)), RatSum(confs))

C8_Witness ==
    /\ OcrDone /\ ocrEngine = "tesseract"
    /\ Len(ocrWorld.spans) = 2
    /\ Len(ocrOut.result.blocks) = 1
    /\ RatEq(ocrOut.result.confidence, Rat(60, 1))

(***************************************************************************)
(* Properties of the table parser (specification SpecTable)                *)
(***************************************************************************)
Validated  == tblDone /\ tblOp = "validate_table_structure"
TextParsed == tblDone /\ tblOp = "_parse_text_tables"
HtmlParsed == tblDone /\ tblOp = "_parse_html_table_element"
TypeFound  == tblDone /\ tblOp = "_detect_data_type"

\* C3: for a table with data and a list of headers, the headers of the cleaned
\* table are pairwise distinct and as many as the input headers
C3_CleanedHeadersDistinct ==
    (Validated /\ Get(tblIn, "data", <<>>) # <<>> /\ "headers" \in DOMAIN tblIn) =>
        LET cleaned == tblOut.cleaned_table.headers
        IN /\ Len(cleaned) = Len(tblIn.headers)
           /\ Cardinality(Range(cleaned)) = Len(cleaned)

\* the cells of the non-separator lines of a block of text, line by line,
\* split on the delimiter of the block's first line
BlockRows(text) ==
    LET lines == Split(Strip(text), "\n")
        kept  == SelectSeq(lines, LAMBDA l : ~IsSeparatorLine(l))
    IN [k \in 1..Len(kept) |-> LineCells(kept[k], _detect_delimiter(lines[1]))]

Min(a, b) == IF a <= b THEN a ELSE b

\* C4: a block of pipe-delimited lines with a header line and data lines
\* yields one table: headers are the cells of the first non-separator line,
\* rows counts the later ones, data[k] maps headers[i] to the i-th cell of
\* the k-th of them; the Name/Age/Dept block yields headers [Name, Age,
\* Dept], rows 2 and data[0] = {Name: John, Age: 30, Dept: Eng}
C4_TextTable ==
    (TextParsed /\ Len(BlockRows(tblIn)) >= 2) =>
        LET rows == BlockRows(tblIn)
        IN /\ Len(tblOut.tables) = 1
           /\ tblOut.tables[1].headers = rows[1]
           /\ tblOut.tables[1].rows = Len(rows) - 1
           /\ Len(tblOut.tables[1].data) = Len(rows) - 1
           /\ \A k \in 1..(Len(rows) - 1) :
                 \A i \in 1..Min(Len(rows[1]), Len(rows[k + 1])) :
                    /\ rows[1][i] \in DOMAIN tblOut.tables[1].data[k]
                    /\ tblOut.tables[1].data[k][rows[1][i]] = rows[k + 1][i]
           /\ tblIn = ScenarioText =>
                 /\ tblOut.tables[1].headers
                      = <<<<"N", "a", "m", "e">>, <<"A", "g", "e">>, <<"D", "e", "p", "t">>>>
                 /\ tblOut.tables[1].rows = 2
                 /\ tblOut.tables[1].data[1]
                      = [h \in {<<"N", "a", "m", "e">>, <<"A", "g", "e">>,
                                <<"D", "e", "p", "t">>} |->
                           IF h = <<"A", "g", "e">> THEN <<"3", "0">>
                           ELSE IF h = <<"D", "e", "p", "t">> THEN <<"E", "n", "g">>
                           ELSE <<"J", "o", "h", "n">>]

\* the record of a row holds a short row under the first headers only and
\* an overflow cell at position N under Column_N
RaggedRecord(headers, cells, record) ==
    /\ Len(cells) < Len(headers) =>
          DOMAIN record = {headers[j] : j \in 1..Len(cells)}
    /\ \A n \in (Len(headers) + 1)..Len(cells) :
          /\ ColumnName(n) \in DOMAIN record
          /\ record[ColumnName(n)] = cells[n]

\* the rows of cells the HTML parser turns into records
HtmlCellRows(table) == HtmlRows(HtmlBodyTrs(table), HtmlHeaders(table))

\* C5: ragged rows do not make parsing fail; a row shorter than the headers
\* gives a record with keys for the first len(cells) headers only, a longer
\* row gives Column_N for each overflow cell N; in the text parser and in
\* the HTML parser
C5_RaggedRows ==
    /\ (TextParsed /\ Len(BlockRows(tblIn)) >= 2) =>
          /\ tblOut.errors = <<>>
          /\ Len(tblOut.tables) = 1
          /\ Len(tblOut.tables[1].data) = Len(BlockRows(tblIn)) - 1
          /\ \A k \in 1..(Len(BlockRows(tblIn)) - 1) :
                RaggedRecord(BlockRows(tblIn)[1], BlockRows(tblIn)[k + 1],
                             tblOut.tables[1].data[k])
    /\ HtmlParsed =>
          /\ Len(tblOut.data) = Len(HtmlCellRows(tblIn))
          /\ \A k \in 1..Len(tblOut.data) :
                RaggedRecord(tblOut.headers, HtmlCellRows(tblIn)[k], tblOut.data[k])

\* a text table with a one-cell header line and a two-cell data line
C5_Witness ==
    /\ TextParsed
    /\ Len(tblOut.tables) = 1
    /\ Len(tblOut.tables[1].headers) = 1
    /\ \E k \in 1..Len(tblOut.tables[1].data) :
          /\ Len(BlockRows(tblIn)[k + 1]) = 2
          /\ ColumnName(2) \in DOMAIN tblOut.tables[1].data[k]

\* the type the stated rules give a cell, surrounding whitespace set aside:
\* a float once commas are removed; one of the three date forms; one of the
\* four words; a currency symbol and then digits; digits and then a final %;
\* nothing at all; anything else
StatedType(cell) ==
    LET v      == Strip(cell)
        amount == LStrip(Tail(v))
        share  == RStrip(SubSeq(v, 1, Len(v) - 1))
    IN IF FloatParses(WithoutCommas(v)) THEN "numeric"
       ELSE IF Len(v) = 10 /\ MatchesDate(v) THEN "date"
       ELSE IF IsBooleanWord(v) THEN "boolean"
       ELSE IF v # <<>> /\ v[1] \in CurrencySymbols
               /\ amount # <<>> /\ amount[1] \in Digits THEN "currency"
       ELSE IF v # <<>> /\ v[Len(v)] = "%" /\ share # <<>> /\ share[1] \in Digits
               /\ \A i \in 1..Len(share) : share[i] \in Digits \cup {",", "."}
            THEN "percentage"
       ELSE IF v = <<>> THEN "empty"
       ELSE "text"

\* C6: _detect_data_type gives every cell the first type that applies in the
\* order numeric, date, boolean, currency, percentage, empty, text; so
\* '$1,250.00' is currency, '45%' percentage, '2024-01-15' date, 'yes'
\* boolean and '' empty
C6_TypeInference ==
    TypeFound =>
        /\ tblOut \in AllTypes
        /\ tblOut = StatedType(tblIn)
        /\ tblIn = <<"$", "1", ",", "2", "5", "0", ".", "0", "0">> => tblOut = "currency"
        /\ tblIn = <<"4", "5", "%">> => tblOut = "percentage"
        /\ tblIn = <<"2", "0", "2", "4", "-", "0", "1", "-", "1", "5">> => tblOut = "date"
        /\ tblIn = <<"y", "e", "s">> => tblOut = "boolean"
        /\ tblIn = <<>> => tblOut = "empty"

\* C10: is_valid is true only when no structural problem was found
C10_ValidOnlyWithoutIssues ==
    Validated => (tblOut.is_valid <=> tblOut.issues = <<>>)

\* C11: validate_table_structure returns a cleaned table for every input
\* table, also for one with no data: cleaned_table is never None
C11_AlwaysCleanedTable ==
    Validated => tblOut.cleaned_table # None

\* the engine the stated policy selects: the requested backend if it is
\* installed, else easyocr if installed, else tesseract if installed, else none
PolicyEngine(preference, installed) ==
    IF preference \in installed THEN preference
    ELSE IF "easyocr" \in installed THEN "easyocr"
    ELSE IF "tesseract" \in installed THEN "tesseract"
    ELSE NoEngine

\* C12: the selected engine is the one the policy names for the requested
\* preference and the installed backends; it is an installed one, and there
\* is no engine only when no backend is installed
C12_SelectionPolicy ==
    /\ ocrEngine = PolicyEngine(ocrPreference, ocrInstalled)
    /\ ocrEngine # NoEngine => ocrEngine \in ocrInstalled
    /\ ocrEngine = NoEngine => ocrInstalled = {}

\* the span at position i of the image came back as a block
SpanReturned(i) ==
    \E j \in 1..Len(ocrOut.result.blocks) : SpanOf(ocrOut.result.blocks[j]) = i

\* the confidence of the span at position i on the 0-100 scale
NormalizedConfidence(i) ==
    IF ocrEngine = "easyocr" THEN RatTimes(ocrWorld.spans[i].conf, 100)
    ELSE Rat(ocrWorld.spans[i].conf, 1)

\* C13: whichever backend is selected, a recognised span is retained exactly
\* when its confidence on the 0-100 scale is at least the threshold on the
\* 0-100 scale (the one given in the options, 30 when none is given)
C13_OneThresholdScale ==
    (OcrDone /\ ocrEngine # NoEngine /\ ocrWorld.raises = "no") =>
        \A i \in 1..Len(ocrWorld.spans) :
            SpanReturned(i) <=>
                /\ RatGe(NormalizedConfidence(i),
                         Get(ocrOptions, "confidence_threshold", Rat(30, 1)))
                /\ ocrEngine = "tesseract" =>
                      /\ ocrWorld.spans[i].conf > 0
                      /\ Strip(ocrWorld.spans[i].text) # <<>>

\* process_document ran _detect_layout on the image
LayoutDetected == OcrDone /\ "layout" \in DOMAIN ocrOut.result

\* C14: the Layout detect_layout returns has columns >= 1 and orientation
\* landscape exactly when width > height, also when image processing fails
\* or is unavailable and the default Layout is returned
C14_LayoutShape ==
    LayoutDetected =>
        /\ ocrOut.result.layout.columns >= 1
        /\ ocrOut.result.layout.orientation
              = (IF RunsWidth(ocrWorld.image.runs) > ocrWorld.image.height
                 THEN "landscape" ELSE "portrait")

\* one of the backend's engine calls raised during recognition
BackendRaised ==
    /\ OcrDone
    /\ \/ ocrEngine = "tesseract" /\ ocrWorld.raises \in {"image_to_string", "image_to_data"}
       \/ ocrEngine = "easyocr" /\ ocrWorld.raises = "readtext"

\* C15: when a backend call raises, the result carries the failure in errors
\* and its text is empty, its blocks are empty and its confidence is 0,
\* on both backends and whichever engine call raised
C15_BackendFailure ==
    BackendRaised =>
        /\ ocrOut.result.errors # <<>>
        /\ ocrOut.result.text = <<>>
        /\ ocrOut.result.blocks = <<>>
        /\ ocrOut.result.confidence.num = 0

\* process was last called on an existing, readable file of this name
ProcessedFile(name) ==
    /\ last.made
    /\ last.key[1] = name
    /\ FileNamed(name).exists /\ ~FileNamed(name).statRaises

\* C16: an existing file of an unknown extension gets exactly one error, the
\* unsupported-file-type error, and neither the OCR path nor the structured
\* path runs; an image goes only to the OCR path and a document only to the
\* structured path
C16_Routing ==
    /\ ProcessedFile("x.xyz") =>
          /\ last.result.errors = <<"Unsupported file type">>
          /\ last.path \notin {"_process_image_document", "_process_text_document"}
          /\ last.calls = <<>>
    /\ \A name \in {"scan.png", "dot.png", "bad.png"} :
          ProcessedFile(name) =>
             /\ last.path \in {"_process_image_document", "cache"}
             /\ "text_parser.parse" \notin Range(last.calls)
    /\ \A name \in {"doc.txt", "bad.pdf"} :
          ProcessedFile(name) =>
             /\ last.path \in {"_process_text_document", "cache"}
             /\ "ocr_agent.process_document" \notin Range(last.calls)

\* a file of unknown extension was processed and turned away with one error
C16_Witness ==
    /\ ProcessedFile("x.xyz") /\ last.path = "unsupported"
    /\ Len(last.result.errors) = 1

\* process ran the OCR agent on an image and the agent's engine was called
OcrCalled ==
    /\ last.made /\ ~last.hit
    /\ Range(last.calls) \cap Backends # {}

\* C17: the OCR options given to process for an image take effect in the OCR
\* call with the caller's value and an omitted option takes its default:
\* preprocessing runs unless preprocess is false, layout detection runs only
\* when detect_layout is true
C17_OcrOptionsTakeEffect ==
    OcrCalled =>
        /\ ("_preprocess_image" \in Range(last.calls))
              = Get(last.key[2], "preprocess", TRUE)
        /\ ("_detect_layout" \in Range(last.calls))
              = Get(last.key[2], "detect_layout", FALSE)


\* the first delimiter kind present in a line, in the stated priority
DelimiterKind(line) ==
    IF "|" \in Range(line) THEN "|"
    ELSE IF "\t" \in Range(line) THEN "\t"
    ELSE IF \E i \in 1..(Len(line) - 1) : line[i] = " " /\ line[i + 1] = " " THEN "  "
    ELSE ","

\* a line split on one kind of delimiter, the cells stripped; empty cells
\* dropped for the pipe only
CellsSplitOn(line, kind) ==
    IF kind = "|" THEN NonEmpty(StripAll(Split(line, "|")))
    ELSE IF kind = "  " THEN StripAll(SplitSpaces(line))
    ELSE StripAll(Split(line, kind))

\* the lines of the block given to the text parser that are no separators
BlockLines(text) ==
    SelectSeq(Split(Strip(text), "\n"), LAMBDA l : ~IsSeparatorLine(l))

\* C21: the delimiter is the first kind present in the block's first line in
\* the priority pipe > tab > multi-space > comma and the lines are split on
\* exactly that delimiter; a first line with no pipe, tab or multi-space run
\* makes the block split on commas
C21_DelimiterSplit ==
    (TextParsed /\ tblOut.tables # <<>>) =>
        LET kind == DelimiterKind(Split(Strip(tblIn), "\n")[1])
        IN /\ tblOut.tables[1].delimiter = kind
           /\ tblOut.tables[1].headers = CellsSplitOn(BlockLines(tblIn)[1], kind)

CsvParsed   == tblDone /\ tblOp = "_parse_csv_table"
ExcelParsed == tblDone /\ tblOp = "_parse_excel_tables"

\* the tables the parsing operation returned
TablesReturned ==
    IF TextParsed \/ CsvParsed \/ ExcelParsed THEN tblOut.tables
    ELSE IF HtmlParsed THEN <<tblOut>>
    ELSE <<>>

\* C19: every table returned for a text, html, csv or excel source has
\* rows == len(data) and columns == len(headers)
C19_TableShape ==
    \A k \in 1..Len(TablesReturned) :
        /\ TablesReturned[k].rows = Len(TablesReturned[k].data)
        /\ TablesReturned[k].columns = Len(TablesReturned[k].headers)

\* a sheet with an empty row among its rows came back as a table, the empty
\* row removed
C19_Witness ==
    /\ ExcelParsed
    /\ Len(tblOut.tables) = 1
    /\ tblOut.tables[1].rows = 1
    /\ Len(tblIn.sheets[1].rows) = 2
    /\ tblOut.tables[1].columns = 2

(***************************************************************************)
(* Properties of racing process calls (specification SpecRace)             *)
(***************************************************************************)
\* both racing calls have returned, on a processor built with caching enabled
BothReturned ==
    /\ config.cache_results
    /\ \A t \in Threads : threads[t].pc = "done"

\* C18: two process calls with the same path and options racing on one
\* processor return equal results under every interleaving, and the cache
\* afterwards holds at most one entry for their key, with that result
C18_RaceBenign ==
    BothReturned =>
        /\ threads[1].result = threads[2].result
        /\ CacheHit(cache, ThreadKey(1)) => cache[ThreadKey(1)] = threads[1].result
        /\ Cardinality(DOMAIN cache) <= 1

\* _detect_layout got as far as counting the columns of the image
ColumnsCounted ==
    /\ LayoutDetected
    /\ ocrWorld.image.cv2
    /\ ocrWorld.image.raises \in {"no", "findContours"}

\* the maximal stretches i..j of runs of the profile that are all below the
\* gap threshold and together wider than 5% of the page
WideGaps(runs) ==
    {g \in (1..Len(runs)) \X (1..Len(runs)) :
        /\ g[1] <= g[2]
        /\ \A k \in g[1]..g[2] : 2 * runs[k].val * RunsWidth(runs) < RunsSum(runs)
        /\ g[1] > 1 => 2 * runs[g[1] - 1].val * RunsWidth(runs) >= RunsSum(runs)
        /\ g[2] < Len(runs) => 2 * runs[g[2] + 1].val * RunsWidth(runs) >= RunsSum(runs)
        /\ 20 * RunsWidth(SubSeq(runs, g[1], g[2])) > RunsWidth(runs)}

\* C22: the column count is 1 plus the number of maximal below-threshold
\* runs of the projection profile wider than 5% of the page width, wherever
\* the run lies: at the left edge, in the middle or reaching the right edge
C22_ColumnCount ==
    ColumnsCounted =>
        ocrOut.result.layout.columns = 1 + Cardinality(WideGaps(ocrWorld.image.runs))

\* process_document preprocessed an image on which an OpenCV step of the
\* preprocessing raises, and that step was called
PreprocessStepRaised ==
    /\ OcrDone /\ ocrEngine # NoEngine
    /\ Get(ocrOptions, "preprocess", TRUE)
    /\ ocrWorld.image.cv2
    /\ \/ ocrWorld.raises \in Range(PreprocessSteps(ocrOptions))
       \/ ocrWorld.raises = "minAreaRect" /\ Get(ocrOptions, "deskew", FALSE)

\* C23: when grayscale conversion, denoising, contrast enhancement or deskew
\* raises, the step degrades to pass-through, the later steps still run and
\* the OCR backend is still invoked; no preprocessing step fails the call
C23_PreprocessPassThrough ==
    PreprocessStepRaised =>
        /\ ocrEngine \in Range(ocrOut.calls)
        /\ "OCR processing error" \notin Range(ocrOut.result.errors)
        /\ Range(PreprocessSteps(ocrOptions)) \subseteq Range(ocrOut.calls)
        /\ ocrWorld.raises \notin Range(ocrOut.applied)

\* C24: every table a parsing operation returns, for text, html, csv and
\* excel sources, went through the validation pass: its headers are
\* pairwise distinct even when the source repeats a column name
C24_ReturnedHeadersDistinct ==
    \A k \in 1..Len(TablesReturned) :
        \A i, j \in 1..Len(TablesReturned[k].headers) :
            i # j => TablesReturned[k].headers[i] # TablesReturned[k].headers[j]

BlocksDetected == tblDone /\ tblOp = "_detect_text_tables"

\* a line with more than one '|', more than one tab, or more than two runs
\* of two or more consecutive blanks
TabularByCount(line) ==
    \/ Cardinality({i \in 1..Len(line) : line[i] = "|"}) > 1
    \/ Cardinality({i \in 1..Len(line) : line[i] = "\t"}) > 1
    \/ Cardinality({i \in 1..(Len(line) - 1) :
                      /\ line[i] = " " /\ line[i + 1] = " "
                      /\ (i = 1 \/ line[i - 1] # " ")}) > 2

\* the maximal runs i..j of consecutive tabular lines with more than one line
TabularRuns(lines) ==
    {r \in (1..Len(lines)) \X (1..Len(lines)) :
        /\ r[1] < r[2]
        /\ \A k \in r[1]..r[2] : TabularByCount(lines[k])
        /\ r[1] > 1 => ~TabularByCount(lines[r[1] - 1])
        /\ r[2] < Len(lines) => ~TabularByCount(lines[r[2] + 1])}

\* C25: the blocks _detect_text_tables emits are exactly the maximal runs of
\* consecutive tabular lines that have more than one line, in input order,
\* a run that reaches the end of the input included; a single tabular line
\* is never emitted
C25_DetectedBlocks ==
    BlocksDetected =>
        LET lines == Split(tblIn, "\n")
            runs  == TabularRuns(lines)
        IN /\ Len(tblOut) = Cardinality(runs)
           /\ \A r \in runs :
                 tblOut[1 + Cardinality({q \in runs : q[1] < r[1]})]
                    = Join(<<"\n">>, SubSeq(lines, r[1], r[2]))

\* of four lines the last two came out as the one block, ending the input,
\* and the lone tabular first line did not
C25_Witness ==
    /\ BlocksDetected
    /\ Len(Split(tblIn, "\n")) = 4
    /\ Len(tblOut) = 1
    /\ TabularByCount(Split(tblIn, "\n")[1])
    /\ ~TabularByCount(Split(tblIn, "\n")[2])
    /\ TabularByCount(Split(tblIn, "\n")[4])

\* a line made only of '|', '-', '+' and whitespace
OnlyDecoration(line) ==
    /\ line # <<>>
    /\ \A i \in 1..Len(line) : line[i] \in {"|", "-", "+", " ", "\t", "\n", "\r"}

\* the lines of the block given to the text parser that are not decoration
ContentLines(text) ==
    SelectSeq(Split(Strip(text), "\n"), LAMBDA l : ~OnlyDecoration(l))

\* C26: the text-table path never returns an empty table: every table has
\* rows >= 1, a block that yields no data row is discarded, and a line made
\* only of '|', '-', '+' and whitespace is neither the header nor a data row
C26_NoEmptyTextTable ==
    TextParsed =>
        /\ \A k \in 1..Len(tblOut.tables) :
              /\ tblOut.tables[k].rows >= 1
              /\ tblOut.tables[k].data # <<>>
        /\ Len(ContentLines(tblIn)) < 2 => tblOut.tables = <<>>
        /\ tblOut.tables # <<>> =>
              /\ Len(tblOut.tables[1].data) = Len(ContentLines(tblIn)) - 1
              /\ tblOut.tables[1].headers # <<>>

\* a header line followed only by separator lines was parsed and no table
\* came back
C26_Witness ==
    /\ TextParsed
    /\ Len(Split(tblIn, "\n")) = 3
    /\ Len(ContentLines(tblIn)) = 1
    /\ ~OnlyDecoration(Split(tblIn, "\n")[1])
    /\ tblOut.tables = <<>>

StatisticsDone == tblDone /\ tblOp = "_calculate_statistics"

RECURSIVE SumOfCounts(_, _)
\* the sum of the counts of a histogram over the keys in S
SumOfCounts(h, S) ==
    IF S = {} THEN 0
    ELSE LET k == CHOOSE x \in S : TRUE IN h[k] + SumOfCounts(h, S \ {k})

RECURSIVE CellsIn(_)
\* the number of cells in the data of a list of tables
CellsIn(tables) ==
    IF tables = <<>> THEN 0
    ELSE SumOver([k \in 1..Len(tables[1].data) |-> Cardinality(DOMAIN tables[1].data[k])],
                 Len(tables[1].data))
         + CellsIn(Tail(tables))

\* C27: total_rows and total_columns are the sums of the tables' rows and
\* columns, the averages are the totals divided by the number of tables, and
\* the data_types histogram counts every cell of every table, so its counts
\* add up to the number of cells in all tables' data
C27_StatisticsAggregate ==
    (StatisticsDone /\ tblIn # <<>>) =>
        /\ tblOut.total_rows = SumOver([i \in 1..Len(tblIn) |-> tblIn[i].rows], Len(tblIn))
        /\ tblOut.total_columns
              = SumOver([i \in 1..Len(tblIn) |-> tblIn[i].columns], Len(tblIn))
        /\ tblOut.average_rows.num * Len(tblIn) = tblOut.total_rows * tblOut.average_rows.den
        /\ tblOut.average_columns.num * Len(tblIn)
              = tblOut.total_columns * tblOut.average_columns.den
        /\ SumOfCounts(tblOut.data_types, DOMAIN tblOut.data_types) = CellsIn(tblIn)

\* C28: parsing a row into a record loses no cell: in the text parser and
\* in the HTML parser the record of every data row has exactly as many
\* entries as the row has cells, no cell overwriting another of its row
C28_NoCellLost ==
    /\ (TextParsed /\ Len(BlockRows(tblIn)) >= 2 /\ Len(tblOut.tables) = 1) =>
          \A k \in 1..Len(tblOut.tables[1].data) :
              Cardinality(DOMAIN tblOut.tables[1].data[k]) = Len(BlockRows(tblIn)[k + 1])
    /\ HtmlParsed =>
          \A k \in 1..Len(tblOut.data) :
              Cardinality(DOMAIN tblOut.data[k]) = Len(HtmlCellRows(tblIn)[k])

\* the row of a markup table that supplied the headers: the first row of the
\* thead, or without a thead element the first row when it has th cells
HeaderSupplied(table) ==
    IF table.hasThead THEN table.theadRows # <<>> /\ table.theadRows[1] # <<>>
    ELSE table.bodyRows # <<>> /\ \E i \in 1..Len(table.bodyRows[1]) :
                                      table.bodyRows[1][i].tag = "th"

\* the non-empty rows of the table other than the one that supplied the headers
RowsBesideHeader(table) ==
    SelectSeq(IF ~table.hasThead THEN Tail(table.bodyRows)
              ELSE IF table.hasTbody THEN table.bodyRows
              ELSE Tail(table.theadRows) \o table.bodyRows,
              LAMBDA tr : tr # <<>>)

\* C29: the row that supplied the headers of a markup table is never also a
\* data row, whether the headers came from a thead row of th cells, a thead
\* row of td cells or th cells in the first row, with or without a tbody:
\* the data rows are taken from the other rows only
C29_HeaderRowNotData ==
    (HtmlParsed /\ HeaderSupplied(tblIn)) =>
        Len(tblOut.data) <= Len(RowsBesideHeader(tblIn))


\* the words recognised on the page, as image_to_data reports them
RecognisedWords(spans) ==
    LET texts == [i \in 1..Len(spans) |-> Strip(spans[i].text)]
    IN SelectSeq(texts, LAMBDA t : t # <<>>)

\* image_to_string and image_to_data read the same words off the page
SamePageRead ==
    ocrEngine = "tesseract" => Words(ocrWorld.pageText) = RecognisedWords(ocrWorld.spans)

\* C30: for both backends the text of the result is made only of spans that
\* passed the confidence filter: every word of the text is a word of some
\* block of the result
C30_TextFromKeptSpans ==
    (OcrDone /\ ocrEngine \in Backends /\ SamePageRead) =>
        \A w \in Range(Words(ocrOut.result.text)) :
            \E b \in Range(ocrOut.result.blocks) : w \in Range(Words(b.text))

====
